---------------------------- MODULE Spec2Model ----------------------------
(***************************************************************************)
(* Live option-spread sessions of the trading bot:                         *)
(*   IronCondorLive  (src/src/live/iron_condor_ws.py)                      *)
(*   StrangleLive    (src/src/live/strangle_ws.py)                         *)
(* and the backtest replays of src/src/backtest.                           *)
(* One session object is modelled; `variant` says which class was          *)
(* constructed or which replay function runs.  Prices are held in integer ticks of 0.20 rupee, money in  *)
(* the same ticks, the index in index points.  Python dicts are functions  *)
(* whose DOMAIN is the set of keys present.  The wall clock (datetime.now) *)
(* is an abstract non-decreasing integer.                                  *)
(***************************************************************************)
EXTENDS Integers, Sequences, FiniteSets, TLC

VARIABLES
    variant,            \* "condor" | "strangle": the class that was constructed
    simulate_orders,    \* IronCondorLive.simulate_orders (strangle always places orders)
    phase,              \* "constructed" (after __init__) | "running" (run() reached ws.connect)
    clock,              \* last value datetime.now() returned
    ws_open,            \* the websocket subscription is open
    more,               \* the feed is closed and _on_ws_message still has items of its message to process
    latest_ltp,         \* self.latest_ltp: token -> price
    in_position,        \* self.in_position
    trading_active,     \* IronCondorLive.trading_active
    trailing_sl_active, \* IronCondorLive.trailing_sl_active
    peak_mtm,           \* IronCondorLive.peak_mtm
    entry_info,         \* self.entry_info
    exit_info,          \* StrangleLive.exit_info
    closed_pnl,         \* IronCondorLive.closed_pnl
    stops,              \* short_ce_stop/short_pe_stop (condor), ce_stop/pe_stop (strangle), in tenths of a tick
    accumulators,       \* IronCondorLive.individual_leg_vwap_accumulators
    next_vwap_update_time, \* IronCondorLive.next_vwap_update_time: <<>> is None, <<t>> a time
    cum_pv,             \* StrangleLive.cum_pv
    cum_vol,            \* StrangleLive.cum_vol
    seen_sum_above_vwap,\* StrangleLive.seen_sum_above_vwap
    exit_done,          \* history: some call of _execute_exit has returned normally
    upd,                \* history: what the last processed update did (NoUpdate after any other step)
    bar_index,          \* backtest replays: the number of bars the loop has processed
    broker,             \* what the broker reports at startup, where a specification fixes it in advance
    call                \* a helper function under examination: its name, arguments, progress and return value

vars == <<variant, simulate_orders, phase, clock, ws_open, more, latest_ltp,
          in_position, trading_active, trailing_sl_active, peak_mtm, entry_info,
          exit_info, closed_pnl, stops, accumulators, next_vwap_update_time,
          cum_pv, cum_vol, seen_sum_above_vwap, exit_done, upd, bar_index, broker, call>>

-----------------------------------------------------------------------------
(* Bounds of the model *)

MaxClock == 2
MaxCumVol == 2

-----------------------------------------------------------------------------
(* Generic helpers *)

EmptyDict == [k \in {} |-> 0]

Put(d, k, v) == [x \in (DOMAIN d) \cup {k} |-> IF x = k THEN v ELSE d[x]]

\* all([...]) over dict.get results: present and non-zero
Truthy(d, k) == k \in DOMAIN d /\ d[k] # 0

\* dict.get(k, default)
GetOr(d, k, default) == IF k \in DOMAIN d THEN d[k] ELSE default

Max(a, b) == IF a >= b THEN a ELSE b

RECURSIVE SumSeq(_)
SumSeq(s) == IF s = <<>> THEN 0 ELSE Head(s) + SumSeq(Tail(s))


-----------------------------------------------------------------------------
(* IronCondorLive: configuration (INDEX_CONFIG["NIFTY"]) and contracts *)

lot_size == 150
\* 20.0 rupees per lot, in ticks of 0.20 rupee
take_profit_per_lot == 20 * 5
absolute_stop_loss_per_lot == 20 * 5
\* 8.0 rupees per lot, in ticks
trailing_activation_mtm_per_lot == 8 * 5
\* 0.70, in hundredths
trailing_sl_reversal_pct == 70
spot_proximity_exit_points == 40

take_profit_points == take_profit_per_lot * lot_size
absolute_stop_loss == absolute_stop_loss_per_lot * lot_size
trailing_activation_mtm == trailing_activation_mtm_per_lot * lot_size

\* dt_time(9, 30), dt_time(14, 50) and the recalculation interval on the abstract clock
EntryStartTime == 1
EodCutoff == 2
vwap_recalc_interval == 1

\* the four option contracts chosen by prepare_contracts and the index token
short_ce_contract == [token |-> "s_ce", symbol |-> "s_ce", strike |-> 25200]
short_pe_contract == [token |-> "s_pe", symbol |-> "s_pe", strike |-> 24800]
long_ce_contract == [token |-> "l_ce", symbol |-> "l_ce", strike |-> 25400]
long_pe_contract == [token |-> "l_pe", symbol |-> "l_pe", strike |-> 24600]
index_token == "index"

CondorLegs == {"s_ce", "s_pe", "l_ce", "l_pe"}
CondorTokens == CondorLegs \cup {index_token}

\* _reset_state: the four empty accumulators (cum_pv in quarter ticks x volume)
ZeroAccumulators == [k \in CondorLegs |-> [cum_pv |-> 0, cum_vol |-> 0]]

-----------------------------------------------------------------------------
(* Broker answers the sessions can receive (inputs of the model) *)

\* prices a tick can carry, per token
CondorTickPrices ==
    [k \in CondorTokens |->
        CASE k = "s_ce" -> {50, 110, 122, 250}
          [] k = "s_pe" -> {140}
          [] k = "l_ce" -> {30}
          [] k = "l_pe" -> {20}
          [] OTHER -> {25000, 25170}]

\* average fill prices get_order_status can report for the four entry orders
CondorFills ==
    { [k \in CondorLegs |-> CASE k = "s_ce" -> 150 [] k = "s_pe" -> 140
                              [] k = "l_ce" -> 30 [] OTHER -> 20],
      [k \in CondorLegs |-> CASE k = "s_ce" -> 160 [] k = "s_pe" -> 140
                              [] k = "l_ce" -> 32 [] OTHER -> 20] }

\* what happens to one entry order: place_order raises; it is placed and never
\* reported complete within the polls; it is placed and reported complete
OrderFates == {"raise", "timeout", "complete"}

Fates(lc, lp, sc, sp) ==
    [k \in CondorLegs |-> CASE k = "l_ce" -> lc [] k = "l_pe" -> lp
                            [] k = "s_ce" -> sc [] OTHER -> sp]

\* the fates that lead _execute_entry through each of its paths
CondorEntryFates ==
    { Fates("raise", "complete", "complete", "complete"),
      Fates("complete", "raise", "complete", "complete"),
      Fates("timeout", "complete", "complete", "complete"),
      Fates("complete", "timeout", "complete", "complete"),
      Fates("complete", "complete", "raise", "complete"),
      Fates("complete", "complete", "complete", "raise"),
      Fates("complete", "complete", "timeout", "complete"),
      Fates("complete", "complete", "complete", "timeout"),
      Fates("complete", "complete", "complete", "complete") }

Trade(sym, id, price, side) ==
    [tradingsymbol |-> sym, fillid |-> id, fillprice |-> price,
     fillsize |-> lot_size, transactiontype |-> side]

\* trade books get_trade_book can return (None and [] are both <<>>)
TradeBooks ==
    { <<>>,
      << Trade("l_ce", 1, 30, "BUY"), Trade("l_pe", 1, 20, "BUY"),
         Trade("s_ce", 1, 34, "SELL"), Trade("s_pe", 1, 20, "SELL"),
         Trade("OTHER", 1, 500, "SELL") >> }

Bar(o, h, l, c, v) == [o |-> o, h |-> h, l |-> l, c |-> c, v |-> v]

\* results of the four getCandleData calls of one recalculation
CandleHistories ==
    { [k \in CondorLegs |-> IF k = "s_ce" THEN << Bar(10, 12, 8, 10, 2), Bar(20, 20, 20, 20, 0) >>
                            ELSE << Bar(4, 4, 4, 4, 1) >>] }

\* one call of _execute_exit at the broker: fail = k > 0 says the k-th place_order
\* raises, fail = 0 that all are accepted; tb is the trade book read afterwards
\* (condor); raises is the set of legs whose place_order raises (strangle)
ExitAnswer(fail, raises, tb) == [fail |-> fail, raises |-> raises, tb |-> tb]

CondorExitAnswers ==
    { ExitAnswer(k, {}, <<>>) : k \in 1..4 } \cup { ExitAnswer(0, {}, tb) : tb \in TradeBooks }

StrangleExitAnswers == { ExitAnswer(0, r, <<>>) : r \in SUBSET {"ce", "pe"} }

DefaultExit == ExitAnswer(0, {}, <<>>)

\* everything the broker answers during one update
Answer(fates, fill, ltp_ok, exits, hist) ==
    [fates |-> fates, fill |-> fill, ltp_ok |-> ltp_ok, ltp |-> 25000, exits |-> exits,
     hist |-> hist]

AllComplete == Fates("complete", "complete", "complete", "complete")

DefaultFill == CHOOSE f \in CondorFills : f["s_ce"] = 150

DefaultHistory == CHOOSE h \in CandleHistories : \A k \in CondorLegs : h[k] # <<>>

DefaultAnswer ==
    Answer(AllComplete, DefaultFill, TRUE, <<DefaultExit, DefaultExit>>, DefaultHistory)


-----------------------------------------------------------------------------
(* The session as a record: the object's fields, and what the running update
   has done so far (orders, reasons, called, raised) *)

Order(leg, side, ok) == [leg |-> leg, side |-> side, ok |-> ok]

\* the history of an update that has not started / of a step that is no update
NoUpdate ==
    [processed |-> FALSE, after_exit |-> FALSE, orders |-> <<>>, reasons |-> <<>>,
     entry_called |-> FALSE,
     entered |-> FALSE, pnl_computed |-> FALSE, recalc_called |-> FALSE,
     exits_returned |-> 0, raised |-> FALSE,
     fates |-> AllComplete, fill |-> DefaultFill, ltp_ok |-> TRUE]

Session ==
    [simulate_orders |-> simulate_orders, ws_open |-> ws_open, latest_ltp |-> latest_ltp,
     in_position |-> in_position, trading_active |-> trading_active,
     trailing_sl_active |-> trailing_sl_active, peak_mtm |-> peak_mtm,
     entry_info |-> entry_info, exit_info |-> exit_info, closed_pnl |-> closed_pnl,
     stops |-> stops, accumulators |-> accumulators,
     next_vwap_update_time |-> next_vwap_update_time, cum_pv |-> cum_pv,
     cum_vol |-> cum_vol, seen_sum_above_vwap |-> seen_sum_above_vwap,
     exit_done |-> exit_done, upd |-> NoUpdate]

\* an update starts; after_exit records that an _execute_exit had completed before it
Begin(s) ==
    [s EXCEPT !.upd = [NoUpdate EXCEPT !.processed = TRUE, !.after_exit = s.exit_done]]

-----------------------------------------------------------------------------
(* IronCondorLive *)

\* (short CE + short PE) - (long CE + long PE) over a token -> price dict
NetCredit(p) == (p["s_ce"] + p["s_pe"]) - (p["l_ce"] + p["l_pe"])

EntryNetCredit(e) ==
    (e["short_ce_entry"] + e["short_pe_entry"]) - (e["long_ce_entry"] + e["long_pe_entry"])

\* _calculate_closed_pnl over a trade book
CondorSymbols ==
    {short_ce_contract.symbol, short_pe_contract.symbol,
     long_ce_contract.symbol, long_pe_contract.symbol}

SignedValue(t) ==
    IF t.transactiontype = "BUY" THEN 0 - t.fillprice * t.fillsize
    ELSE IF t.transactiontype = "SELL" THEN t.fillprice * t.fillsize
    ELSE 0

CalculateClosedPnl(trade_book) ==
    LET InCondor(t) == t.tradingsymbol \in CondorSymbols
        mine == SelectSeq(trade_book, InCondor)
        GroupSize(id) == Cardinality({i \in 1..Len(mine) : mine[i].fillid = id})
    IN  SumSeq([i \in 1..Len(mine) |->
                  IF GroupSize(mine[i].fillid) = 4 THEN SignedValue(mine[i]) ELSE 0])

\* the offsetting orders of _execute_exit, in the order the code places them
CondorExitOrders ==
    << Order("s_ce", "BUY", TRUE), Order("s_pe", "BUY", TRUE),
       Order("l_ce", "SELL", TRUE), Order("l_pe", "SELL", TRUE) >>

\* the orders logged when the k-th place_order of a sequence raises (k = 0: none does)
PlacedUntil(seq, k) ==
    IF k = 0 THEN seq
    ELSE [i \in 1..k |-> IF i = k THEN [seq[i] EXCEPT !.ok = FALSE] ELSE seq[i]]

\* _execute_exit
CondorExecuteExit(s, exit_reason, o) ==
    LET x == o.exits[Len(s.upd.reasons) + 1]
        s0 == [s EXCEPT !.upd.reasons = Append(@, exit_reason)]
        simulated_open_pnl ==
            (EntryNetCredit(s.entry_info)
               - ((GetOr(s.latest_ltp, "s_ce", 0) + GetOr(s.latest_ltp, "s_pe", 0))
                  - (GetOr(s.latest_ltp, "l_ce", 0) + GetOr(s.latest_ltp, "l_pe", 0)))) * lot_size
    IN  IF s.simulate_orders
        THEN [s0 EXCEPT !.closed_pnl = IF s.in_position THEN @ + simulated_open_pnl ELSE @,
                        !.in_position = FALSE,
                        !.trading_active = FALSE,
                        !.ws_open = FALSE,
                        !.exit_done = TRUE,
                        !.upd.exits_returned = @ + 1]
        ELSE IF x.fail > 0
        THEN [s0 EXCEPT !.upd.orders = @ \o PlacedUntil(CondorExitOrders, x.fail),
                        !.upd.raised = TRUE]
        ELSE [s0 EXCEPT !.upd.orders = @ \o CondorExitOrders,
                        !.in_position = FALSE,
                        !.trading_active = FALSE,
                        !.closed_pnl = CalculateClosedPnl(x.tb),
                        !.ws_open = FALSE,
                        !.exit_done = TRUE,
                        !.upd.exits_returned = @ + 1]

\* entry_info and stop levels written by a confirmed live entry
ConfirmedEntryInfo(fill, index_entry_price) ==
    [k \in {"short_ce_entry", "short_pe_entry", "long_ce_entry", "long_pe_entry",
            "nifty_entry_price"} |->
        CASE k = "short_ce_entry" -> fill["s_ce"]
          [] k = "short_pe_entry" -> fill["s_pe"]
          [] k = "long_ce_entry" -> fill["l_ce"]
          [] k = "long_pe_entry" -> fill["l_pe"]
          [] OTHER -> index_entry_price]

\* entry price * 1.70, in tenths of a tick
EntryStops(e) ==
    [k \in {"short_ce_stop", "short_pe_stop"} |->
        IF k = "short_ce_stop" THEN e["short_ce_entry"] * 17 ELSE e["short_pe_entry"] * 17]

\* faulty variants of the long-leg test: only the CE hedge is confirmed; the poll
\* result is ignored
LongCeConfirmedOnly(fates) == fates["l_ce"] = "complete"

LongLegsPlacedOnly(fates) == fates["l_ce"] # "raise" /\ fates["l_pe"] # "raise"

\* the two long-leg BUY orders (lines 422-432): TRUE iff both were placed and confirmed
LongLegsConfirmed(fates) == fates["l_ce"] = "complete" /\ fates["l_pe"] = "complete"

\* a faulty variant of the short-leg test: only the CE order is confirmed
ShortCeConfirmedOnly(fates) == fates["s_ce"] = "complete"

\* the two short-leg SELL orders confirmed (lines 441-444)
ShortLegsConfirmed(fates) == fates["s_ce"] = "complete" /\ fates["s_pe"] = "complete"

\* _execute_entry, order placement mode (lines 422-461)
CondorLiveEntry(s, o) ==
    LET f == o.fates
        buys == << Order("l_ce", "BUY", TRUE), Order("l_pe", "BUY", TRUE) >>
        sells == << Order("s_ce", "SELL", TRUE), Order("s_pe", "SELL", TRUE) >>
        buy_fail == IF f["l_ce"] = "raise" THEN 1 ELSE IF f["l_pe"] = "raise" THEN 2 ELSE 0
        sell_fail == IF f["s_ce"] = "raise" THEN 1 ELSE IF f["s_pe"] = "raise" THEN 2 ELSE 0
        s1 == [s EXCEPT !.upd.orders = @ \o PlacedUntil(buys, buy_fail)]
        s2 == [s1 EXCEPT !.upd.orders = @ \o PlacedUntil(sells, sell_fail)]
        info == ConfirmedEntryInfo(o.fill, o.ltp)
    IN  IF buy_fail > 0 THEN s1
        ELSE IF ~LongLegsConfirmed(f) THEN s1
        ELSE IF sell_fail > 0 THEN CondorExecuteExit(s2, "SELL_LEG_FAILED", o)
        ELSE IF ~ShortLegsConfirmed(f) THEN CondorExecuteExit(s2, "PARTIAL_SELL_FAILED", o)
        ELSE IF ~o.ltp_ok THEN [s2 EXCEPT !.upd.raised = TRUE]
        ELSE [s2 EXCEPT !.in_position = TRUE,
                        !.entry_info = info,
                        !.stops = EntryStops(info),
                        !.trailing_sl_active = FALSE,
                        !.peak_mtm = 0,
                        !.upd.entered = TRUE]

\* _execute_entry, simulation mode (lines 392-420)
CondorSimulatedEntry(s, o) ==
    LET sim == [k \in CondorLegs |-> GetOr(s.latest_ltp, k, 0)]
        sim_index_entry == GetOr(s.latest_ltp, index_token, 0)
        fetched == sim_index_entry = 0 /\ o.ltp_ok
    IN  [s EXCEPT !.in_position = TRUE,
                  !.latest_ltp = IF fetched THEN Put(@, index_token, o.ltp) ELSE @,
                  !.entry_info = ConfirmedEntryInfo(sim, IF fetched THEN o.ltp ELSE sim_index_entry),
                  !.upd.entered = TRUE]

\* _execute_entry
CondorExecuteEntry(s, o) ==
    LET s0 == [s EXCEPT !.upd.entry_called = TRUE,
                        !.upd.fates = o.fates, !.upd.fill = o.fill, !.upd.ltp_ok = o.ltp_ok]
    IN  IF s.simulate_orders THEN CondorSimulatedEntry(s0, o) ELSE CondorLiveEntry(s0, o)


\* a faulty variant of the recalculation: the fetched bars are added to the
\* accumulators without resetting them first
RecalculateVwapAccumulating(acc, hist_bars) ==
    LET Pv(k) == SumSeq([i \in 1..Len(hist_bars[k]) |->
                     (hist_bars[k][i].o + hist_bars[k][i].h + hist_bars[k][i].l
                        + hist_bars[k][i].c) * hist_bars[k][i].v])
        Vol(k) == SumSeq([i \in 1..Len(hist_bars[k]) |-> hist_bars[k][i].v])
    IN  IF \E k \in CondorLegs : hist_bars[k] = <<>>
        THEN acc
        ELSE [k \in CondorLegs |-> [cum_pv |-> acc[k].cum_pv + Pv(k),
                                    cum_vol |-> acc[k].cum_vol + Vol(k)]]

\* _recalculate_vwap_from_history: the accumulators after the call
RecalculateVwapFromHistory(acc, hist_bars) ==
    LET num_bars == Len(hist_bars["s_ce"])
        Used(k) == SubSeq(hist_bars[k], 1, IF Len(hist_bars[k]) < num_bars
                                           THEN Len(hist_bars[k]) ELSE num_bars)
        Pv(k) == SumSeq([i \in 1..Len(Used(k)) |->
                     (Used(k)[i].o + Used(k)[i].h + Used(k)[i].l + Used(k)[i].c) * Used(k)[i].v])
        Vol(k) == SumSeq([i \in 1..Len(Used(k)) |-> Used(k)[i].v])
    IN  IF \E k \in CondorLegs : hist_bars[k] = <<>>
        THEN acc
        ELSE [k \in CondorLegs |-> [cum_pv |-> Pv(k), cum_vol |-> Vol(k)]]

\* lines 540-547: take profit, absolute stop-loss, spot near a short strike
CondorPrimaryExit(s, total_pnl, nifty_ltp, o) ==
    IF total_pnl >= take_profit_points
    THEN CondorExecuteExit(s, "TAKE_PROFIT", o)
    ELSE IF total_pnl <= 0 - absolute_stop_loss
    THEN CondorExecuteExit(s, "STOP_LOSS_ABS", o)
    ELSE IF \/ nifty_ltp <= short_pe_contract.strike + spot_proximity_exit_points
            \/ nifty_ltp >= short_ce_contract.strike - spot_proximity_exit_points
    THEN CondorExecuteExit(s, "SPOT_NEAR_STRIKE", o)
    ELSE s

\* a faulty variant of the trailing stop: the exit needs total_pnl strictly
\* below the trailing stop level
CondorTrailingStrict(s, total_pnl, o) ==
    LET s1 == IF ~s.trailing_sl_active /\ total_pnl >= trailing_activation_mtm
              THEN [s EXCEPT !.trailing_sl_active = TRUE, !.peak_mtm = total_pnl]
              ELSE s
        s2 == IF s1.trailing_sl_active
              THEN [s1 EXCEPT !.peak_mtm = Max(s1.peak_mtm, total_pnl)]
              ELSE s1
    IN  IF s2.trailing_sl_active /\ total_pnl * 100 < s2.peak_mtm * trailing_sl_reversal_pct
        THEN CondorExecuteExit(s2, "TRAILING_STOP_LOSS", o)
        ELSE s2

\* a faulty variant of the trailing stop: trailing is activated by any
\* positive total_pnl, not only at the activation threshold
CondorTrailingEarly(s, total_pnl, o) ==
    LET s1 == IF ~s.trailing_sl_active /\ total_pnl > 0
              THEN [s EXCEPT !.trailing_sl_active = TRUE, !.peak_mtm = total_pnl]
              ELSE s
        s2 == IF s1.trailing_sl_active
              THEN [s1 EXCEPT !.peak_mtm = Max(s1.peak_mtm, total_pnl)]
              ELSE s1
    IN  IF s2.trailing_sl_active /\ total_pnl * 100 <= s2.peak_mtm * trailing_sl_reversal_pct
        THEN CondorExecuteExit(s2, "TRAILING_STOP_LOSS", o)
        ELSE s2

\* lines 549-564: trailing stop activation, peak update and trailing exit
CondorTrailing(s, total_pnl, o) ==
    LET s1 == IF ~s.trailing_sl_active /\ total_pnl >= trailing_activation_mtm
              THEN [s EXCEPT !.trailing_sl_active = TRUE, !.peak_mtm = total_pnl]
              ELSE s
        s2 == IF s1.trailing_sl_active
              THEN [s1 EXCEPT !.peak_mtm = Max(s1.peak_mtm, total_pnl)]
              ELSE s1
    IN  IF s2.trailing_sl_active /\ total_pnl * 100 <= s2.peak_mtm * trailing_sl_reversal_pct
        THEN CondorExecuteExit(s2, "TRAILING_STOP_LOSS", o)
        ELSE s2

\* a faulty variant of the position management: the exit rules read the open
\* P&L alone
CondorManageOpenOnly(s, o) ==
    LET net_credit == NetCredit(s.latest_ltp)
        open_pnl == (EntryNetCredit(s.entry_info) - net_credit) * lot_size
        s0 == [s EXCEPT !.upd.pnl_computed = TRUE]
        s1 == CondorPrimaryExit(s0, open_pnl, s.latest_ltp[index_token], o)
    IN  IF s1.upd.raised THEN s1 ELSE CondorTrailing(s1, open_pnl, o)

\* lines 526-564: position management of one update
CondorManage(s, o) ==
    LET net_credit == NetCredit(s.latest_ltp)
        open_pnl == (EntryNetCredit(s.entry_info) - net_credit) * lot_size
        total_pnl == open_pnl + s.closed_pnl
        s0 == [s EXCEPT !.upd.pnl_computed = TRUE]
        s1 == CondorPrimaryExit(s0, total_pnl, s.latest_ltp[index_token], o)
    IN  IF s1.upd.raised THEN s1 ELSE CondorTrailing(s1, total_pnl, o)

\* a faulty variant of the trading_active guard: the guard is missing
CondorNeverStopped(s) == FALSE

\* lines 496-497: the session stopped trading for the day
CondorStopped(s) == ~s.trading_active

\* a faulty variant of the end-of-day test: strictly after the cutoff
CondorEodLate(s, now) == s.in_position /\ now > EodCutoff

\* line 499: the end-of-day test
CondorEodDue(s, now) == s.in_position /\ now >= EodCutoff

\* a faulty variant of the start-time test: no update is too early
NeverBeforeEntryStart(now) == FALSE

\* lines 502-503: the update is before the start time 09:30
BeforeEntryStart(now) == now < EntryStartTime

\* a faulty variant of the price test: the index price is not required
CondorLegPricesKnown(s) == \A k \in CondorLegs : Truthy(s.latest_ltp, k)

\* lines 510-516: all([s_ce_ltp, s_pe_ltp, l_ce_ltp, l_pe_ltp, nifty_ltp])
CondorPricesKnown(s) == \A k \in CondorTokens : Truthy(s.latest_ltp, k)

\* _process_strategy_on_tick
CondorProcessTick(s, now, o) ==
    IF CondorStopped(s) THEN s
    ELSE IF CondorEodDue(s, now) THEN CondorExecuteExit(s, "EOD", o)
    ELSE IF BeforeEntryStart(now) THEN s
    ELSE
      LET due == s.next_vwap_update_time = <<>> \/ now >= s.next_vwap_update_time[1]
          s1 == IF due
                THEN [s EXCEPT !.accumulators = RecalculateVwapFromHistory(@, o.hist),
                               !.next_vwap_update_time = <<now + vwap_recalc_interval>>,
                               !.upd.recalc_called = TRUE]
                ELSE s
      IN  IF ~CondorPricesKnown(s1) THEN s1
          ELSE IF ~s1.in_position THEN CondorExecuteEntry(s1, o)
          ELSE CondorManage(s1, o)

\* _on_tick with a well-formed payload
CondorOnTick(s, token, ltp, now, o) ==
    CondorProcessTick(Begin([s EXCEPT !.latest_ltp = Put(@, token, ltp)]), now, o)

\* open positions the broker can report at startup
Position(sym, sellqty, buyqty, sellavg, buyavg) ==
    [tradingsymbol |-> sym, sellqty |-> sellqty, buyqty |-> buyqty,
     sellavgprice |-> sellavg, buyavgprice |-> buyavg]

CondorOpenPositions ==
    { <<>>,
      << Position("s_ce", 150, 0, 150, 0), Position("s_pe", 150, 0, 140, 0),
         Position("l_ce", 0, 150, 0, 30), Position("l_pe", 0, 150, 0, 20) >>,
      << Position("s_ce", 150, 0, 150, 0), Position("s_pe", 150, 0, 140, 0),
         Position("l_ce", 0, 150, 0, 30), Position("l_pe", 150, 150, 20, 20) >> }

\* the last position among the indices hits of the list: <<>> for None
LastPosition(open_positions, hits) ==
    IF hits = {} THEN <<>>
    ELSE << open_positions[CHOOSE i \in hits : \A j \in hits : j <= i] >>

\* a faulty variant of the net-short test: a flat position counts as short
NetShortOrFlat(pos) == pos.sellqty >= pos.buyqty

\* sellqty > buyqty
NetShort(pos) == pos.sellqty > pos.buyqty

\* a faulty variant of the net-long test: every position that is not net short
NetLongOrFlat(pos) == ~NetShort(pos)

\* the elif branch: buyqty > sellqty
NetLong(pos) == ~NetShort(pos) /\ pos.buyqty > pos.sellqty

\* the last net short position of the list that has the symbol
FindNetShort(open_positions, symbol) ==
    LastPosition(open_positions,
                 {i \in 1..Len(open_positions) :
                    open_positions[i].tradingsymbol = symbol /\ NetShort(open_positions[i])})

\* the last net long position of the list that has the symbol
FindNetLong(open_positions, symbol) ==
    LastPosition(open_positions,
                 {i \in 1..Len(open_positions) :
                    open_positions[i].tradingsymbol = symbol /\ NetLong(open_positions[i])})

\* _check_and_resume_position
CondorCheckAndResume(s, trade_book, open_positions, ltp_ok, ltp) ==
    LET s_ce == FindNetShort(open_positions, short_ce_contract.symbol)
        s_pe == FindNetShort(open_positions, short_pe_contract.symbol)
        l_ce == FindNetLong(open_positions, long_ce_contract.symbol)
        l_pe == FindNetLong(open_positions, long_pe_contract.symbol)
        s0 == IF ~s.simulate_orders
              THEN [s EXCEPT !.closed_pnl = CalculateClosedPnl(trade_book)]
              ELSE s
        info == [k \in {"short_ce_entry", "short_pe_entry", "long_ce_entry",
                        "long_pe_entry", "nifty_entry_price"} |->
                    CASE k = "short_ce_entry" -> s_ce[1].sellavgprice
                      [] k = "short_pe_entry" -> s_pe[1].sellavgprice
                      [] k = "long_ce_entry" -> l_ce[1].buyavgprice
                      [] k = "long_pe_entry" -> l_pe[1].buyavgprice
                      [] OTHER -> IF ltp_ok THEN ltp ELSE 0]
    IN  IF open_positions = <<>> THEN s0
        ELSE IF s_ce # <<>> /\ s_pe # <<>> /\ l_ce # <<>> /\ l_pe # <<>>
        THEN [s0 EXCEPT !.in_position = TRUE,
                        !.latest_ltp = IF ltp_ok THEN Put(@, index_token, ltp) ELSE @,
                        !.entry_info = info,
                        !.stops = [k \in {"short_ce_stop", "short_pe_stop"} |->
                                     IF k = "short_ce_stop" THEN info["short_ce_entry"] * 22
                                     ELSE info["short_pe_entry"] * 22],
                        !.trailing_sl_active = FALSE,
                        !.peak_mtm = 0]
        ELSE s0


-----------------------------------------------------------------------------
(* StrangleLive *)

NIFTY_LOT_SIZE == 75
\* 1200.0 rupees, in ticks of 0.20 rupee
strangle_take_profit_points == 1200 * 5

StrangleTokens == {"ce", "pe"}

StrangleTickPrices == [k \in StrangleTokens |-> IF k = "ce" THEN {20, 100, 170} ELSE {100}]

StrangleTickVolumes == {0, 1}

StrangleFills == { [k \in StrangleTokens |-> 100],
                   [k \in StrangleTokens |-> IF k = "ce" THEN 90 ELSE 110] }

StrangleFates(ce, pe) == [k \in StrangleTokens |-> IF k = "ce" THEN ce ELSE pe]

StrangleEntryFates ==
    { StrangleFates("raise", "complete"), StrangleFates("complete", "raise"),
      StrangleFates("timeout", "complete"), StrangleFates("complete", "timeout"),
      StrangleFates("timeout", "timeout"), StrangleFates("complete", "complete") }

\* _execute_exit
StrangleExecuteExit(s, ce_only, pe_only, exit_reason, o) ==
    LET x == o.exits[Len(s.upd.reasons) + 1]
        pe_order == IF ~ce_only THEN << Order("pe", "BUY", "pe" \notin x.raises) >> ELSE <<>>
        ce_order == IF ~pe_only THEN << Order("ce", "BUY", "ce" \notin x.raises) >> ELSE <<>>
    IN  [s EXCEPT !.upd.reasons = Append(@, exit_reason),
                  !.upd.orders = @ \o pe_order \o ce_order,
                  !.in_position = FALSE,
                  !.exit_info = [k \in {"ce_exit", "pe_exit", "reason"} |->
                                    CASE k = "ce_exit" -> GetOr(s.latest_ltp, "ce", 0)
                                      [] k = "pe_exit" -> GetOr(s.latest_ltp, "pe", 0)
                                      [] OTHER -> exit_reason],
                  !.ws_open = FALSE,
                  !.exit_done = TRUE,
                  !.upd.exits_returned = @ + 1]

\* both SELL orders reported complete by _poll_order_status (line 305)
StrangleEntryConfirmed(fates) == fates["ce"] = "complete" /\ fates["pe"] = "complete"

\* _execute_entry
StrangleExecuteEntry(s, current_sum_price, o) ==
    LET f == o.fates
        s0 == [s EXCEPT !.upd.entry_called = TRUE,
                        !.upd.fates = f, !.upd.fill = o.fill]
        s1 == [s0 EXCEPT !.upd.orders = Append(@, Order("ce", "SELL", f["ce"] # "raise"))]
        s2 == [s1 EXCEPT !.upd.orders = Append(@, Order("pe", "SELL", f["pe"] # "raise"))]
    IN  IF f["ce"] = "raise" THEN s1
        ELSE IF f["pe"] = "raise"
        THEN StrangleExecuteExit(s2, TRUE, FALSE, "PE_ORDER_FAILED", o)
        ELSE IF ~StrangleEntryConfirmed(f)
        THEN StrangleExecuteExit(s2, f["ce"] = "complete", f["pe"] = "complete",
                                 "PARTIAL_ENTRY_FAILED", o)
        ELSE [s2 EXCEPT !.in_position = TRUE,
                        !.entry_info = [k \in {"ce_entry", "pe_entry", "entry_sum_price"} |->
                                          CASE k = "ce_entry" -> o.fill["ce"]
                                            [] k = "pe_entry" -> o.fill["pe"]
                                            [] OTHER -> current_sum_price],
                        !.stops = [k \in {"ce_stop", "pe_stop"} |->
                                     IF k = "ce_stop" THEN o.fill["ce"] * 17
                                     ELSE o.fill["pe"] * 17],
                        !.upd.entered = TRUE]

\* lines 405-423: P&L and the exit rules of one update
StrangleManage(s, ce_ltp, pe_ltp, o) ==
    LET entry_ce == GetOr(s.entry_info, "ce_entry", 0)
        entry_pe == GetOr(s.entry_info, "pe_entry", 0)
        total_pnl == (entry_ce - ce_ltp) * NIFTY_LOT_SIZE + (entry_pe - pe_ltp) * NIFTY_LOT_SIZE
        \* getattr(self, "ce_stop", inf): no stop level means the test is false
        CeHit == "ce_stop" \in DOMAIN s.stops /\ ce_ltp * 10 >= s.stops["ce_stop"]
        PeHit == "pe_stop" \in DOMAIN s.stops /\ pe_ltp * 10 >= s.stops["pe_stop"]
        s0 == [s EXCEPT !.upd.pnl_computed = TRUE]
    IN  IF total_pnl >= strangle_take_profit_points
        THEN StrangleExecuteExit(s0, FALSE, FALSE, "TAKE_PROFIT", o)
        ELSE IF CeHit \/ PeHit
        THEN StrangleExecuteExit(s0, FALSE, FALSE, IF CeHit THEN "CE_SL_HIT" ELSE "PE_SL_HIT", o)
        ELSE s0

\* a faulty variant of the entry rule: no arming is needed to enter
StrangleEntryUnarmed(s, sum_price, o) ==
    LET Above == s.cum_vol > 0 /\ sum_price * 4 * s.cum_vol > s.cum_pv
    IN  IF Above THEN [s EXCEPT !.seen_sum_above_vwap = TRUE]
        ELSE StrangleExecuteEntry(s, sum_price, o)

\* a faulty variant of the entry rule: with no accumulated volume the VWAP
\* counts as 0, so any price is above it
StrangleEntryZeroVwap(s, sum_price, o) ==
    LET Above == s.cum_vol = 0 \/ sum_price * 4 * s.cum_vol > s.cum_pv
    IN  IF ~s.seen_sum_above_vwap
        THEN (IF Above THEN [s EXCEPT !.seen_sum_above_vwap = TRUE] ELSE s)
        ELSE (IF ~Above THEN StrangleExecuteEntry(s, sum_price, o) ELSE s)

\* lines 395-403: the entry rule (arm above VWAP, enter at or below it);
\* cum_pv is held in quarter ticks x volume, so vwap = cum_pv / (4 * cum_vol)
StrangleEntryRule(s, sum_price, o) ==
    LET Above == s.cum_vol > 0 /\ sum_price * 4 * s.cum_vol > s.cum_pv
    IN  IF ~s.seen_sum_above_vwap
        THEN (IF Above THEN [s EXCEPT !.seen_sum_above_vwap = TRUE] ELSE s)
        ELSE (IF ~Above THEN StrangleExecuteEntry(s, sum_price, o) ELSE s)

\* line 375: the end-of-day test
StrangleEodDue(s, now) == s.in_position /\ now >= EodCutoff

\* _process_strategy_on_tick
StrangleProcessTick(s, updated_vol, now, o) ==
    IF StrangleEodDue(s, now)
    THEN StrangleExecuteExit(s, FALSE, FALSE, "EOD", o)
    ELSE IF ~("ce" \in DOMAIN s.latest_ltp /\ "pe" \in DOMAIN s.latest_ltp) THEN s
    ELSE
      LET ce_ltp == s.latest_ltp["ce"]
          pe_ltp == s.latest_ltp["pe"]
          sum_price == ce_ltp + pe_ltp
          s1 == [s EXCEPT !.cum_pv = @ + 4 * sum_price * updated_vol,
                          !.cum_vol = @ + updated_vol]
      IN  IF ~s1.in_position THEN StrangleEntryRule(s1, sum_price, o)
          ELSE StrangleManage(s1, ce_ltp, pe_ltp, o)

\* _on_tick with a well-formed payload
StrangleOnTick(s, token, ltp, vol, now, o) ==
    StrangleProcessTick(Begin([s EXCEPT !.latest_ltp = Put(@, token, ltp)]), vol, now, o)

\* combined 1-minute bars (CE + PE) the pre-fill of prepare_contracts can fetch:
\* <<>> when a fetch returned nothing
StranglePrefills == { <<>>, << Bar(200, 220, 180, 200, 1) >> }

\* prepare_contracts, lines 154-177: cum_pv and cum_vol after the pre-fill
StranglePrefillPv(bars) ==
    SumSeq([i \in 1..Len(bars) |-> (bars[i].o + bars[i].h + bars[i].l + bars[i].c) * bars[i].v])

StranglePrefillVol(bars) == SumSeq([i \in 1..Len(bars) |-> bars[i].v])

StrangleOpenPositions ==
    { <<>>,
      << Position("ce", 75, 0, 100, 0), Position("pe", 75, 0, 100, 0) >>,
      << Position("ce", 75, 0, 100, 0), Position("pe", 75, 75, 100, 100) >> }

\* _check_and_resume_position
StrangleCheckAndResume(s, open_positions) ==
    LET ce_pos == FindNetShort(open_positions, "ce")
        pe_pos == FindNetShort(open_positions, "pe")
    IN  IF open_positions = <<>> THEN s
        ELSE IF ce_pos # <<>> /\ pe_pos # <<>>
        THEN [s EXCEPT !.in_position = TRUE,
                       !.entry_info = [k \in {"ce_entry", "pe_entry"} |->
                                         IF k = "ce_entry" THEN ce_pos[1].sellavgprice
                                         ELSE pe_pos[1].sellavgprice],
                       !.stops = [k \in {"ce_stop", "pe_stop"} |->
                                    IF k = "ce_stop" THEN ce_pos[1].sellavgprice * 17
                                    ELSE pe_pos[1].sellavgprice * 17]]
        ELSE s


-----------------------------------------------------------------------------
(* The answers that matter to an update.  `probe` is the update run with every
   broker call succeeding: it shows which broker calls the update makes (whether
   it recalculates, enters, or exits once or twice), and those do not depend on
   what the broker answers; only the answers to the calls made are varied. *)

DefaultStrangleAnswer ==
    Answer(StrangleFates("complete", "complete"), CHOOSE f \in StrangleFills : f["ce"] = 100,
           TRUE, <<DefaultExit, DefaultExit>>, DefaultHistory)

CondorEntryAnswers ==
    { Answer(f, DefaultFill, TRUE, <<DefaultExit, DefaultExit>>, DefaultHistory) :
        f \in {g \in CondorEntryFates : ~LongLegsConfirmed(g)} }
    \cup
    { Answer(f, DefaultFill, TRUE, <<x, DefaultExit>>, DefaultHistory) :
        f \in {g \in CondorEntryFates : LongLegsConfirmed(g) /\ g # AllComplete},
        x \in CondorExitAnswers }
    \cup
    { Answer(AllComplete, fill, ok, <<DefaultExit, DefaultExit>>, DefaultHistory) :
        fill \in CondorFills, ok \in BOOLEAN }

\* n calls of _execute_exit in one update: a second call is made only when the
\* first returned, and then overwrites the closed P&L the first one read
CondorExitOnlyAnswers(n) ==
    UNION { { Answer(AllComplete, DefaultFill, TRUE, <<x1, x2>>, DefaultHistory) :
                x2 \in (IF n > 1 /\ x1.fail = 0 THEN CondorExitAnswers ELSE {DefaultExit}) } :
            x1 \in CondorExitAnswers }

CondorAnswers(probe) ==
    LET base == IF probe.simulate_orders THEN {DefaultAnswer}
                ELSE IF probe.upd.entry_called THEN CondorEntryAnswers
                ELSE IF probe.upd.reasons # <<>>
                THEN CondorExitOnlyAnswers(Len(probe.upd.reasons))
                ELSE {DefaultAnswer}
    IN  IF probe.upd.recalc_called
        THEN { [a EXCEPT !.hist = h] : a \in base, h \in CandleHistories }
        ELSE base

StrangleAnswers(probe) ==
    IF probe.upd.entry_called
    THEN { [DefaultStrangleAnswer EXCEPT !.fates = f] :
             f \in {StrangleFates("raise", "complete")} }
         \cup
         { [DefaultStrangleAnswer EXCEPT !.fates = f, !.exits = <<x, DefaultExit>>] :
             f \in StrangleEntryFates \ {StrangleFates("raise", "complete"),
                                          StrangleFates("complete", "complete")},
             x \in StrangleExitAnswers }
         \cup
         { [DefaultStrangleAnswer EXCEPT !.fill = fill] : fill \in StrangleFills }
    ELSE IF probe.upd.reasons # <<>>
    THEN { [DefaultStrangleAnswer EXCEPT !.exits = <<x, DefaultExit>>] :
             x \in StrangleExitAnswers }
    ELSE {DefaultStrangleAnswer}

-----------------------------------------------------------------------------
(* State machine *)

Init ==
    /\ variant \in {"condor", "strangle"}
    /\ simulate_orders \in (IF variant = "condor" THEN BOOLEAN ELSE {FALSE})
    /\ phase = "constructed"
    /\ clock = 0
    /\ ws_open = FALSE
    /\ more = FALSE
    /\ latest_ltp = EmptyDict
    /\ in_position = FALSE
    /\ trading_active = TRUE
    /\ trailing_sl_active = FALSE
    /\ peak_mtm = 0
    /\ entry_info = EmptyDict
    /\ exit_info = EmptyDict
    /\ closed_pnl = 0
    /\ stops = EmptyDict
    /\ accumulators = ZeroAccumulators
    /\ next_vwap_update_time = <<>>
    /\ cum_pv = 0
    /\ cum_vol = 0
    /\ seen_sum_above_vwap = FALSE
    /\ exit_done = FALSE
    /\ upd = NoUpdate
    /\ bar_index = 0
    /\ broker = EmptyDict
    /\ call = EmptyDict

\* the session after a step: r is the session record the step produced
Commit(r) ==
    /\ latest_ltp' = r.latest_ltp
    /\ in_position' = r.in_position
    /\ trading_active' = r.trading_active
    /\ trailing_sl_active' = r.trailing_sl_active
    /\ peak_mtm' = r.peak_mtm
    /\ entry_info' = r.entry_info
    /\ exit_info' = r.exit_info
    /\ closed_pnl' = r.closed_pnl
    /\ stops' = r.stops
    /\ accumulators' = r.accumulators
    /\ next_vwap_update_time' = r.next_vwap_update_time
    /\ cum_pv' = r.cum_pv
    /\ cum_vol' = r.cum_vol
    /\ seen_sum_above_vwap' = r.seen_sum_above_vwap
    /\ exit_done' = r.exit_done
    /\ upd' = r.upd

\* IronCondorLive.run up to ws.connect(): prepare_contracts, _check_and_resume_position
CondorRun ==
    /\ variant = "condor"
    /\ phase = "constructed"
    /\ \E now \in 0..MaxClock, tb \in TradeBooks, op \in CondorOpenPositions, ok \in BOOLEAN :
         /\ clock' = now
         /\ Commit(CondorCheckAndResume(Session, tb, op, ok, 25000))
    /\ phase' = "running"
    /\ ws_open' = TRUE
    /\ UNCHANGED <<variant, simulate_orders, more, bar_index, broker, call>>

\* StrangleLive.run up to ws.connect(): prepare_contracts (VWAP pre-fill),
\* _check_and_resume_position
StrangleRun ==
    /\ variant = "strangle"
    /\ phase = "constructed"
    /\ \E now \in 0..MaxClock, bars \in StranglePrefills, op \in StrangleOpenPositions :
         /\ clock' = now
         /\ StranglePrefillVol(bars) <= MaxCumVol
         /\ Commit(StrangleCheckAndResume(
                     [Session EXCEPT !.cum_pv = @ + StranglePrefillPv(bars),
                                     !.cum_vol = @ + StranglePrefillVol(bars)], op))
    /\ phase' = "running"
    /\ ws_open' = TRUE
    /\ UNCHANGED <<variant, simulate_orders, more, bar_index, broker, call>>

\* time passes between two updates
Advance ==
    /\ phase = "running"
    /\ clock < MaxClock
    /\ clock' = clock + 1
    /\ UNCHANGED <<variant, simulate_orders, phase, ws_open, more, latest_ltp,
                   in_position, trading_active, trailing_sl_active, peak_mtm, entry_info,
                   exit_info, closed_pnl, stops, accumulators, next_vwap_update_time,
                   cum_pv, cum_vol, seen_sum_above_vwap, exit_done, upd,
                   bar_index, broker, call>>

\* an item reaches _on_tick: the open feed delivered one, or the loop of
\* _on_ws_message is at a further item of the message during which the feed closed
Delivering == phase = "running" /\ (ws_open \/ more)

\* the end of one _on_tick call: an exception leaves _on_ws_message, so the rest of
\* the message is not processed (the websocket library logs an exception of its
\* data callback and keeps the feed open)
Finish(r) ==
    /\ Commit(r)
    /\ ws_open' = r.ws_open
    /\ more' \in (IF r.upd.raised \/ ws_open' THEN {FALSE} ELSE BOOLEAN)
    /\ UNCHANGED <<variant, simulate_orders, phase, clock, bar_index, broker, call>>

\* the ticks enumerated in a state: a tick that repeats the price its token
\* already has is the same update whichever token it names (latest_ltp does not
\* change, the same rules run), so it is enumerated for one token only
TickEnumerated(repeatable, token, ltp) ==
    token = repeatable \/ token \notin DOMAIN latest_ltp \/ latest_ltp[token] # ltp

\* IronCondorLive._on_tick on one item
CondorTick ==
    /\ variant = "condor"
    /\ Delivering
    /\ \E token \in CondorTokens :
         \E ltp \in {p \in CondorTickPrices[token] : TickEnumerated("s_ce", token, p)} :
           \E o \in CondorAnswers(CondorOnTick(Session, token, ltp, clock, DefaultAnswer)) :
             Finish(CondorOnTick(Session, token, ltp, clock, o))

\* StrangleLive._on_tick on one item
StrangleTick ==
    /\ variant = "strangle"
    /\ Delivering
    /\ \E token \in StrangleTokens, vol \in StrangleTickVolumes :
         \E ltp \in {p \in StrangleTickPrices[token] : TickEnumerated("ce", token, p)} :
           \E o \in StrangleAnswers(StrangleOnTick(Session, token, ltp, vol, clock, DefaultStrangleAnswer)) :
             /\ cum_vol + vol <= MaxCumVol
             /\ Finish(StrangleOnTick(Session, token, ltp, vol, clock, o))

Next == CondorRun \/ StrangleRun \/ Advance \/ CondorTick \/ StrangleTick

Spec == Init /\ [][Next]_vars

-----------------------------------------------------------------------------
(* Backtest replays (src/src/backtest).  A replay walks the bars of one day in
   order; the session record holds the local variables of the replay function:
   entry_index is None iff entry_info is empty, exit_index is None iff exit_info
   is empty, latest_ltp holds the closes of the bar being processed (bars[-1]
   after the loop), upd is the row appended to records.  cum_pv is held in
   quarter ticks x volume, as in the live strangle.  The NIFTY entry of the
   backtest INDEX_CONFIG (vwap_ce_pe_strategy.py 20-34) holds the same numbers
   as the live one, so the live definitions are read. *)

MaxBars == 4

\* vwap_ce_pe_strategy.Bar: per leg open, high, low, close and volume
CondorBar(open, high, low, close, volume) ==
    [open |-> open, high |-> high, low |-> low, close |-> close, volume |-> volume]

CondorCloses(sc) ==
    [k \in CondorLegs |->
        CASE k = "s_ce" -> sc [] k = "s_pe" -> 140 [] k = "l_ce" -> 30 [] OTHER -> 20]

\* the bars a day of the iron condor replay is made of: the short CE moves
CondorBars ==
    { CondorBar(CondorCloses(sc), CondorCloses(sc), CondorCloses(sc), CondorCloses(sc),
                [k \in CondorLegs |-> 0]) : sc \in {150, 110, 122, 250, 50} }

\* Bar.net_credit_open, net_credit_high, net_credit_low, net_credit_close
NetCreditOpen(bar) == NetCredit(bar.open)

NetCreditHigh(bar) ==
    (bar.high["s_ce"] + bar.high["s_pe"]) - (bar.low["l_ce"] + bar.low["l_pe"])

NetCreditLow(bar) ==
    (bar.low["s_ce"] + bar.low["s_pe"]) - (bar.high["l_ce"] + bar.high["l_pe"])

NetCreditClose(bar) == NetCredit(bar.close)

\* Bar.combined_volume: v if v > 0 else 1.0
CombinedVolume(bar) ==
    LET v == bar.volume["s_ce"] + bar.volume["s_pe"] + bar.volume["l_ce"] + bar.volume["l_pe"]
    IN  IF v > 0 THEN v ELSE 1

\* the exit fields written when a replay leaves its position
ReplayExit(s, reason) ==
    [s EXCEPT !.in_position = FALSE,
              !.exit_info = [reason |-> reason, close |-> s.latest_ltp],
              !.upd.reasons = <<reason>>]

\* lines 229-232 and 248: the reason of the bar, <<>> for None
CondorReplayReason(total_pnl, trailing_fires) ==
    LET primary == IF total_pnl >= take_profit_points THEN <<"TAKE_PROFIT">>
                   ELSE IF total_pnl <= 0 - absolute_stop_loss THEN <<"STOP_LOSS_ABS">>
                   ELSE <<>>
    IN  IF trailing_fires THEN <<"TRAILING_STOP_LOSS">> ELSE primary

\* run_iron_condor_strategy_for_day, lines 223-254: one bar in position
CondorReplayManage(s) ==
    LET total_pnl == (NetCredit(s.entry_info) - NetCredit(s.latest_ltp)) * lot_size
        s1 == IF ~s.trailing_sl_active /\ total_pnl >= trailing_activation_mtm
              THEN [s EXCEPT !.trailing_sl_active = TRUE, !.peak_mtm = total_pnl]
              ELSE s
        s2 == IF s1.trailing_sl_active
              THEN [s1 EXCEPT !.peak_mtm = Max(s1.peak_mtm, total_pnl)]
              ELSE s1
        fires == s2.trailing_sl_active
                   /\ total_pnl * 100 <= s2.peak_mtm * trailing_sl_reversal_pct
        temp_exit_reason == CondorReplayReason(total_pnl, fires)
        s3 == [s2 EXCEPT !.upd.pnl_computed = TRUE]
    IN  IF temp_exit_reason # <<>> THEN ReplayExit(s3, temp_exit_reason[1]) ELSE s3

\* run_iron_condor_strategy_for_day, lines 192-265: one iteration of the loop
CondorReplayBar(s, bar, bar_time) ==
    LET s0 == [Begin(s) EXCEPT
                  !.cum_pv = @ + (NetCreditOpen(bar) + NetCreditHigh(bar)
                                    + NetCreditLow(bar) + NetCreditClose(bar))
                                 * CombinedVolume(bar),
                  !.cum_vol = @ + CombinedVolume(bar),
                  !.latest_ltp = bar.close]
        enters == ~s0.in_position /\ s0.exit_info = EmptyDict /\ s0.entry_info = EmptyDict
        s1 == IF enters
              THEN [s0 EXCEPT !.in_position = TRUE,
                              !.entry_info = bar.close,
                              !.trailing_sl_active = FALSE,
                              !.peak_mtm = 0,
                              !.upd.entered = TRUE]
              ELSE s0
    IN  IF bar_time < EntryStartTime THEN s0
        ELSE IF s1.in_position THEN CondorReplayManage(s1)
        ELSE s1

\* a faulty variant of the end of a replay: a position still open after the
\* last bar is left without an exit
ReplayNoEod(s) == s

\* lines 267-270 (and the same lines of the other replays): the position still
\* open after the last bar is closed with reason EOD
ReplayEod(s) ==
    IF s.entry_info # EmptyDict /\ s.exit_info = EmptyDict
    THEN [s EXCEPT !.exit_info = [reason |-> "EOD", close |-> s.latest_ltp],
                   !.upd.reasons = <<"EOD">>]
    ELSE s

\* StrangleBar (vwap_ce_pe_strategy.py) and Bar (vwap_straddle_strategy.py,
\* vwap_strangle_5_percent_strategy.py): CE and PE prices and volumes
StrangleBar(open, high, low, close, volume) ==
    [open |-> open, high |-> high, low |-> low, close |-> close, volume |-> volume]

StrangleCloses(ce, pe) == [k \in StrangleTokens |-> IF k = "ce" THEN ce ELSE pe]

\* the bars of a strangle or straddle day: the CE moves, the PE stays
FlatStrangleBar(ce, pe) ==
    StrangleBar(StrangleCloses(ce, pe), StrangleCloses(ce, pe), StrangleCloses(ce, pe),
                StrangleCloses(ce, pe), [k \in StrangleTokens |-> 0])

StrangleBars == { FlatStrangleBar(ce, 100) : ce \in {100, 170, 60} }

StraddleBars == { FlatStrangleBar(ce, 100) : ce \in {100, 170, 60, 120} }

BandBars == { FlatStrangleBar(ce, 100) : ce \in {100, 110, 170, 310} }

\* StrangleBar.combined_open .. combined_close, Bar.sum_price
Combined(p) == p["ce"] + p["pe"]

\* StrangleBar.combined_volume, Bar.sum_volume: v if v > 0 else 1.0
SumVolume(bar) ==
    LET v == bar.volume["ce"] + bar.volume["pe"]
    IN  IF v > 0 THEN v ELSE 1

\* the keyword defaults of the replay functions, money in ticks of 0.20 rupee
backtest_absolute_stop_loss == 2000 * 5
backtest_take_profit_points == 3000 * 5
vwap_band_pct == 5

\* entry * (1 + stop_loss_pct) per leg, in tenths of a tick; pct_tenths is
\* 10 * (1 + stop_loss_pct)
ReplayStops(close, pct_tenths) ==
    [k \in {"ce_stop", "pe_stop"} |->
        IF k = "ce_stop" THEN close["ce"] * pct_tenths ELSE close["pe"] * pct_tenths]

\* the fields written by the entry of a strangle, straddle or band replay
ReplayEnter(s, pct_tenths) ==
    [s EXCEPT !.in_position = TRUE,
              !.entry_info = s.latest_ltp,
              !.stops = ReplayStops(s.latest_ltp, pct_tenths),
              !.upd.entered = TRUE]

\* ((entry_ce - ce_p) + (entry_pe - pe_p)) * 75
ReplayPnl(s) ==
    ((s.entry_info["ce"] - s.latest_ltp["ce"]) + (s.entry_info["pe"] - s.latest_ltp["pe"])) * 75

\* a leg closed at or above its stop level
LegStopHit(s) ==
    \/ s.latest_ltp["ce"] * 10 >= s.stops["ce_stop"]
    \/ s.latest_ltp["pe"] * 10 >= s.stops["pe_stop"]

\* run_vwap_strangle_strategy_for_day, lines 399-411: arm above VWAP, enter at or below
StrangleReplayEntry(s) ==
    LET Above == Combined(s.latest_ltp) * 4 * s.cum_vol > s.cum_pv
    IN  IF ~s.seen_sum_above_vwap
        THEN (IF Above THEN [s EXCEPT !.seen_sum_above_vwap = TRUE] ELSE s)
        ELSE (IF ~Above THEN ReplayEnter(s, 17) ELSE s)

\* run_vwap_strangle_strategy_for_day, lines 413-427: one bar in position
StrangleReplayManage(s) ==
    LET total_pnl == ReplayPnl(s)
        s0 == [s EXCEPT !.upd.pnl_computed = TRUE]
    IN  IF total_pnl >= backtest_take_profit_points THEN ReplayExit(s0, "TAKE_PROFIT")
        ELSE IF total_pnl <= 0 - backtest_absolute_stop_loss THEN ReplayExit(s0, "STOP_LOSS_ABS")
        ELSE s0

\* run_vwap_strangle_strategy_for_day, lines 385-434: one iteration of the loop
StrangleReplayBar(s, bar, bar_time) ==
    LET s0 == [Begin(s) EXCEPT
                  !.cum_pv = @ + (Combined(bar.open) + Combined(bar.high)
                                    + Combined(bar.low) + Combined(bar.close)) * SumVolume(bar),
                  !.cum_vol = @ + SumVolume(bar),
                  !.latest_ltp = bar.close]
        s1 == IF ~s0.in_position /\ s0.exit_info = EmptyDict
              THEN StrangleReplayEntry(s0)
              ELSE s0
    IN  IF bar_time < EntryStartTime THEN s0
        ELSE IF s1.in_position THEN StrangleReplayManage(s1)
        ELSE s1

\* run_vwap_straddle_strategy_for_day, lines 140-204: one iteration of the loop;
\* the stop is entry * (1 + 1), and the bar of the entry checks no stop
StraddleReplayBar(s, bar) ==
    LET s0 == [Begin(s) EXCEPT !.cum_pv = @ + 4 * Combined(bar.close) * SumVolume(bar),
                               !.cum_vol = @ + SumVolume(bar),
                               !.latest_ltp = bar.close]
        Above == Combined(bar.close) * 4 * s0.cum_vol > s0.cum_pv
    IN  IF ~s0.in_position
        THEN (IF ~s0.seen_sum_above_vwap
              THEN (IF Above THEN [s0 EXCEPT !.seen_sum_above_vwap = TRUE] ELSE s0)
              ELSE (IF ~Above THEN ReplayEnter(s0, 20) ELSE s0))
        ELSE IF LegStopHit(s0) THEN ReplayExit(s0, "STOP_LOSS")
        ELSE s0

\* a faulty variant of the entry test: the band is ignored, price > vwap
BandBreakoutNoBand(s) == Combined(s.latest_ltp) * 4 * s.cum_vol > s.cum_pv

\* run_vwap_strangle_5_percent_strategy_for_day, lines 172-182: the entry test
\* price > vwap * (1 + vwap_band_pct)
BandBreakout(s) ==
    Combined(s.latest_ltp) * 4 * s.cum_vol * 100 > s.cum_pv * (100 + vwap_band_pct)

\* lines 188-192: the reason of the bar, <<>> for None
BandReplayReason(s) ==
    IF LegStopHit(s) THEN <<"STOP_LOSS_PCT">>
    ELSE IF ReplayPnl(s) <= 0 - backtest_absolute_stop_loss THEN <<"STOP_LOSS_ABS">>
    ELSE <<>>

\* run_vwap_strangle_5_percent_strategy_for_day, lines 159-208: one iteration
BandReplayBar(s, bar) ==
    LET s0 == [Begin(s) EXCEPT !.cum_pv = @ + 4 * Combined(bar.close) * SumVolume(bar),
                               !.cum_vol = @ + SumVolume(bar),
                               !.latest_ltp = bar.close]
        s1 == IF ~s0.in_position /\ s0.exit_info = EmptyDict /\ BandBreakout(s0)
              THEN ReplayEnter(s0, 17)
              ELSE s0
        s2 == [s1 EXCEPT !.upd.pnl_computed = TRUE]
    IN  IF ~s1.in_position THEN s1
        ELSE IF BandReplayReason(s1) # <<>> THEN ReplayExit(s2, BandReplayReason(s1)[1])
        ELSE s2

-----------------------------------------------------------------------------
(* State machine of the replays *)

ReplayVariants ==
    {"condor_backtest", "strangle_backtest", "straddle_backtest", "band_backtest"}

\* the locals of a replay function before its loop
InitBacktest ==
    /\ variant \in ReplayVariants
    /\ simulate_orders = TRUE
    /\ phase = "replaying"
    /\ clock = 0
    /\ ws_open = FALSE
    /\ more = FALSE
    /\ latest_ltp = EmptyDict
    /\ in_position = FALSE
    /\ trading_active = TRUE
    /\ trailing_sl_active = FALSE
    /\ peak_mtm = 0
    /\ entry_info = EmptyDict
    /\ exit_info = EmptyDict
    /\ closed_pnl = 0
    /\ stops = EmptyDict
    /\ accumulators = ZeroAccumulators
    /\ next_vwap_update_time = <<>>
    /\ cum_pv = 0
    /\ cum_vol = 0
    /\ seen_sum_above_vwap = FALSE
    /\ exit_done = FALSE
    /\ upd = NoUpdate
    /\ bar_index = 0
    /\ broker = EmptyDict
    /\ call = EmptyDict

\* the loop takes the next bar of the day
NextBar ==
    /\ phase = "replaying"
    /\ bar_index < MaxBars
    /\ bar_index' = bar_index + 1
    /\ UNCHANGED <<variant, simulate_orders, phase, ws_open, more, broker, call>>

\* run_iron_condor_strategy_for_day: one iteration; bar times do not decrease
CondorReplayStep ==
    /\ variant = "condor_backtest"
    /\ NextBar
    /\ \E bar \in CondorBars, bar_time \in clock..MaxClock :
         /\ clock' = bar_time
         /\ Commit(CondorReplayBar(Session, bar, bar_time))

\* run_vwap_strangle_strategy_for_day: one iteration
StrangleReplayStep ==
    /\ variant = "strangle_backtest"
    /\ NextBar
    /\ \E bar \in StrangleBars, bar_time \in clock..MaxClock :
         /\ clock' = bar_time
         /\ Commit(StrangleReplayBar(Session, bar, bar_time))

\* run_vwap_straddle_strategy_for_day: one iteration; the loop breaks after a
\* STOP_LOSS exit (lines 206-207); bar times are not read
StraddleReplayStep ==
    /\ variant = "straddle_backtest"
    /\ exit_info = EmptyDict
    /\ NextBar
    /\ \E bar \in StraddleBars : Commit(StraddleReplayBar(Session, bar))
    /\ UNCHANGED clock

\* run_vwap_strangle_5_percent_strategy_for_day: one iteration; bar times are not read
BandReplayStep ==
    /\ variant = "band_backtest"
    /\ NextBar
    /\ \E bar \in BandBars : Commit(BandReplayBar(Session, bar))
    /\ UNCHANGED clock

\* the loop is over (the fetch raises when a leg has no bar, so there is one):
\* the EOD exit of a position still open
ReplayEnd ==
    /\ phase = "replaying"
    /\ bar_index >= 1
    /\ Commit(ReplayEod([Session EXCEPT !.upd = upd]))
    /\ phase' = "done"
    /\ UNCHANGED <<variant, simulate_orders, clock, ws_open, more, bar_index, broker, call>>

NextBacktest ==
    CondorReplayStep \/ StrangleReplayStep \/ StraddleReplayStep \/ BandReplayStep
      \/ ReplayEnd

SpecBacktest == InitBacktest /\ [][NextBacktest]_vars

\* the live sessions and the replays together
InitAll == Init \/ InitBacktest

NextAll == Next \/ NextBacktest

SpecAll == InitAll /\ [][NextAll]_vars

-----------------------------------------------------------------------------
(* Properties.  `upd` is the record of the last update: the orders it placed,
   the exit reasons it produced, whether it ran _execute_entry. *)

Live == ~simulate_orders

\* the orders of the last update for one leg and side, placed or attempted
Attempts(leg, side) ==
    {i \in 1..Len(upd.orders) : upd.orders[i].leg = leg /\ upd.orders[i].side = side}

Placed(leg, side) == {i \in Attempts(leg, side) : upd.orders[i].ok}

ShortLegs == {"s_ce", "s_pe"}
LongLegs == {"l_ce", "l_pe"}

\* the side of the order that offsets a leg of the iron condor
Offsetting(leg) == IF leg \in ShortLegs THEN "BUY" ELSE "SELL"

\* C1: in the strangle session, once _execute_exit has run no later update runs
\* _execute_entry and in_position is never true again
C1_StrangleEntersAtMostOnce ==
    variant = "strangle" =>
        /\ ~(upd.after_exit /\ upd.entry_called)
        /\ ~(exit_done /\ in_position)

\* C2: one update of the iron condor session invokes _execute_exit at most once:
\* one exit reason, and at most one offsetting order per leg
C2_AtMostOneExitPerUpdate ==
    variant = "condor" =>
        /\ Len(upd.reasons) <= 1
        /\ \A leg \in CondorLegs : Cardinality(Attempts(leg, Offsetting(leg))) <= 1

\* C3: when both long-leg BUYs are confirmed and a short-leg SELL is not placed or
\* not confirmed, both long legs get an offsetting SELL, no BUY is placed for a
\* short leg that was not sold, and the session is not in position
C3_UnwindOnlyFilledLegs ==
    (/\ variant = "condor" /\ Live /\ upd.entry_called
     /\ \A leg \in LongLegs : upd.fates[leg] = "complete"
     /\ \E leg \in ShortLegs : upd.fates[leg] # "complete")
    =>
        /\ \A leg \in LongLegs : Placed(leg, "SELL") # {}
        /\ \A leg \in ShortLegs :
              (Placed(leg, "SELL") = {} \/ upd.fates[leg] # "complete")
                 => Attempts(leg, "BUY") = {}
        /\ ~in_position

\* C4: an exit from a position in order placement mode attempts an offsetting
\* order for every leg, whatever happens to the orders of the other legs, and
\* then the session is not in position and _execute_exit has completed
C4_ExitAttemptsEveryLeg ==
    (Live /\ upd.reasons # <<>> /\ ~upd.entry_called)
    =>
        /\ variant = "condor" =>
              \A leg \in CondorLegs : Attempts(leg, Offsetting(leg)) # {}
        /\ variant = "strangle" =>
              \A leg \in StrangleTokens : Attempts(leg, "BUY") # {}
        /\ ~in_position
        /\ upd.exits_returned = Len(upd.reasons)

\* C5: every SELL order for a short leg comes after the placed BUY orders of
\* both long legs, and both BUY orders were confirmed complete
C5_HedgeFirst ==
    variant = "condor" =>
        \A i \in 1..Len(upd.orders) :
            (upd.orders[i].side = "SELL" /\ upd.orders[i].leg \in ShortLegs)
            => \A leg \in LongLegs :
                  /\ \E j \in Placed(leg, "BUY") : j < i
                  /\ upd.fates[leg] = "complete"

C5_ShortLegSold ==
    /\ variant = "condor" /\ Live
    /\ \E leg \in ShortLegs : Placed(leg, "SELL") # {}

\* C6: an entry whose long-leg BUY fails to be placed or confirmed places no SELL
\* order and no offsetting order, invokes no exit, and leaves in_position false
\* and entry_info as it was
C6_LongLegFailureAborts ==
    [][(/\ variant = "condor" /\ Live /\ upd'.entry_called
        /\ \E leg \in LongLegs : upd'.fates[leg] # "complete")
       =>
        /\ \A i \in 1..Len(upd'.orders) :
              upd'.orders[i].side = "BUY" /\ upd'.orders[i].leg \in LongLegs
        /\ upd'.reasons = <<>>
        /\ ~in_position'
        /\ entry_info' = entry_info]_vars

C6_LongLegFailed ==
    /\ variant = "condor" /\ Live /\ upd.entry_called
    /\ \E leg \in LongLegs : upd.fates[leg] # "complete"

\* C7: in order placement mode an entry leaves in_position true only if every
\* entry order of the attempt was reported complete
C7_InPositionOnlyIfAllComplete ==
    (Live /\ upd.entry_called)
    =>
        /\ in_position => upd.entered
        /\ upd.entered => \A leg \in DOMAIN upd.fates : upd.fates[leg] = "complete"
        /\ (\E leg \in DOMAIN upd.fates : upd.fates[leg] # "complete") => ~in_position

C7_EntryConfirmed ==
    /\ Live /\ upd.entry_called /\ upd.entered /\ in_position

\* C8: a live iron condor entry whose four orders are all confirmed complete puts
\* the session in position with the confirmed fill prices in entry_info,
\* whatever the other broker queries of the entry answer
C8_FullSuccessEnters ==
    (variant = "condor" /\ Live /\ upd.entry_called /\ upd.fates = AllComplete)
    =>
        /\ in_position
        /\ DOMAIN entry_info # {}
        /\ entry_info = ConfirmedEntryInfo(upd.fill, entry_info["nifty_entry_price"])

\* C9: after _execute_exit has completed in the iron condor session the feed is
\* closed, no later update places an order, invokes an entry or an exit, and
\* in_position, entry_info, closed_pnl, trailing_sl_active and peak_mtm stay as
\* they are
C9_ClosedIsTerminal ==
    [][/\ (variant = "condor" /\ exit_done) =>
             /\ ~ws_open /\ ~ws_open'
             /\ UNCHANGED <<in_position, entry_info, closed_pnl,
                            trailing_sl_active, peak_mtm>>
       /\ (variant = "condor" /\ upd'.after_exit) =>
             /\ upd'.orders = <<>>
             /\ upd'.reasons = <<>>
             /\ ~upd'.entry_called]_vars

C9_UpdateAfterExit == variant = "condor" /\ Live /\ upd.after_exit /\ upd.processed

\* C10: an update processed in position at or after the end-of-day cutoff invokes
\* the exit with reason EOD, computes no P&L and produces no other reason
C10_EodOverrides ==
    [][(phase = "running" /\ clock' = clock /\ in_position /\ clock >= EodCutoff)
       => (upd'.reasons = <<"EOD">> /\ ~upd'.pnl_computed /\ ~upd'.entry_called)]_vars

C10_EodExit == upd.reasons = <<"EOD">> /\ Live

-----------------------------------------------------------------------------
(* Exit rules of the replays, read off the state after the bar that exited *)

\* the row of the bar just replayed carries an exit reason
ReplayExited(v, reason) ==
    variant = v /\ phase = "replaying" /\ upd.reasons = <<reason>>

\* totalPnL of the iron condor replay at the prices the exit was recorded at
CondorExitPnl == (NetCredit(entry_info) - NetCredit(exit_info.close)) * lot_size

\* totalPnL of a strangle or band replay at the prices the exit was recorded at
StrangleExitPnl ==
    ((entry_info["ce"] - exit_info.close["ce"]) + (entry_info["pe"] - exit_info.close["pe"])) * 75

\* C11: a replay that records TRAILING_STOP_LOSS (iron condor) or STOP_LOSS_PCT
\* (band breakout) for a bar does so only when no rule earlier in the order
\* TAKE_PROFIT, STOP_LOSS_ABS, STOP_LOSS_PCT, TRAILING_STOP_LOSS holds on that bar
C11_FirstRuleInOrderWins ==
    /\ ReplayExited("condor_backtest", "TRAILING_STOP_LOSS") =>
          /\ CondorExitPnl < take_profit_points
          /\ CondorExitPnl > 0 - absolute_stop_loss
    /\ ReplayExited("band_backtest", "STOP_LOSS_PCT") =>
          StrangleExitPnl > 0 - backtest_absolute_stop_loss

\* C12: in the strangle replay no bar processed in position ends with the
\* position still open while a short leg closed at or above its stop level
\* (take-profit and absolute stop-loss exit the position, so they do not hold
\* in a state that is still in position)
C12_LegStopExits ==
    (variant = "strangle_backtest" /\ phase = "replaying" /\ upd.processed /\ in_position)
        => ~LegStopHit([latest_ltp |-> latest_ltp, stops |-> stops])

-----------------------------------------------------------------------------
(* Trailing stop of the iron condor *)

\* an update of the live iron condor session that reaches position management:
\* in position and trading, from 09:30 to the cutoff, with every price known
\* once the tick is stored
CondorManagedUpdate ==
    /\ variant = "condor" /\ phase = "running" /\ clock' = clock
    /\ in_position /\ trading_active
    /\ clock >= EntryStartTime /\ clock < EodCutoff
    /\ \A k \in CondorTokens : Truthy(latest_ltp', k)

\* total_pnl as that update computes it (lines 527-531)
CondorUpdatePnl ==
    (EntryNetCredit(entry_info) - NetCredit(latest_ltp')) * lot_size + closed_pnl

\* the trailing bookkeeping of lines 549-558 has been applied with total_pnl
TrailingBookkeeping(total_pnl) ==
    /\ trailing_sl_active =>
          trailing_sl_active' /\ peak_mtm' = Max(peak_mtm, total_pnl)
    /\ (~trailing_sl_active /\ total_pnl >= trailing_activation_mtm) =>
          trailing_sl_active' /\ peak_mtm' = total_pnl
    /\ (~trailing_sl_active /\ total_pnl < trailing_activation_mtm) =>
          ~trailing_sl_active' /\ peak_mtm' = peak_mtm

\* C13: every update of the live iron condor session that manages a position
\* runs the trailing bookkeeping, whether or not another exit rule matched on it:
\* peak_mtm becomes max(peak_mtm, totalPnL) once trailing is active
C13_BookkeepingOnEveryUpdate ==
    [][CondorManagedUpdate => TrailingBookkeeping(CondorUpdatePnl)]_vars

\* a bar of the iron condor replay on which a position is managed
CondorManagedBar ==
    /\ variant = "condor_backtest" /\ phase = "replaying"
    /\ bar_index' = bar_index + 1
    /\ upd'.pnl_computed

\* total_pnl as that bar computes it (lines 224-226)
CondorBarPnl == (NetCredit(entry_info') - NetCredit(latest_ltp')) * lot_size

\* the update named TRAILING_STOP_LOSS as an exit reason
TrailingFired == \E i \in 1..Len(upd'.reasons) : upd'.reasons[i] = "TRAILING_STOP_LOSS"

\* the update went past the take-profit / stop-loss chain
TrailingReached == ~upd'.raised \/ TrailingFired

\* activation, peak update and exit of the trailing stop for total_pnl
TrailingRule(total_pnl) ==
    /\ TrailingBookkeeping(total_pnl)
    /\ TrailingFired <=>
          (trailing_sl_active' /\ total_pnl * 100 <= peak_mtm' * trailing_sl_reversal_pct)

-----------------------------------------------------------------------------
(* Position resumption at startup.  The broker's answers to the calls of
   _check_and_resume_position are drawn at construction and kept in `broker`,
   so that the state after the call can be compared with what the broker
   reported. *)

\* what the broker holds of one expected leg
LegHoldings == {"held", "missing", "reversed", "flat"}

\* average fill prices the broker reports, in ticks
BrokerAverages ==
    [k \in CondorLegs |->
        CASE k = "s_ce" -> 150 [] k = "s_pe" -> 140 [] k = "l_ce" -> 30 [] OTHER -> 20]

\* the open-position row of a leg: quantities by holding, <<>> when missing
HoldingRow(leg, holding) ==
    LET short == leg \in {"s_ce", "s_pe"}
        avg == BrokerAverages[leg]
        sells == (short /\ holding = "held") \/ (~short /\ holding = "reversed")
    IN  CASE holding = "missing" -> <<>>
          [] holding = "flat" -> << Position(leg, lot_size, lot_size, avg, avg) >>
          [] sells -> << Position(leg, lot_size, 0, avg, 0) >>
          [] OTHER -> << Position(leg, 0, lot_size, 0, avg) >>

\* api.get_open_positions(): one row per leg the broker knows of
HoldingRows(h) ==
    HoldingRow("s_ce", h["s_ce"]) \o HoldingRow("s_pe", h["s_pe"])
      \o HoldingRow("l_ce", h["l_ce"]) \o HoldingRow("l_pe", h["l_pe"])

\* a day's trade book in which every leg was sold once and bought once, each
\* fill reported under its own fill id, next to a fill of another instrument
PairedTradeBook ==
    << Trade("s_ce", 1, 34, "SELL"), Trade("s_pe", 2, 20, "SELL"),
       Trade("l_ce", 3, 30, "BUY"), Trade("l_pe", 4, 20, "BUY"),
       Trade("OTHER", 5, 500, "SELL"),
       Trade("s_ce", 6, 24, "BUY"), Trade("s_pe", 7, 15, "BUY"),
       Trade("l_ce", 8, 27, "SELL"), Trade("l_pe", 9, 18, "SELL") >>

\* trade books get_trade_book can return at startup
ResumeTradeBooks == TradeBooks \cup {PairedTradeBook}

\* the answers of the broker at startup
BrokerAnswers ==
    { [holdings |-> h, open_positions |-> HoldingRows(h), trade_book |-> tb, ltp_ok |-> ok] :
        h \in [CondorLegs -> LegHoldings], tb \in ResumeTradeBooks, ok \in BOOLEAN }

InitResume ==
    /\ variant = "condor"
    /\ simulate_orders \in BOOLEAN
    /\ phase = "constructed"
    /\ clock = 0
    /\ ws_open = FALSE
    /\ more = FALSE
    /\ latest_ltp = EmptyDict
    /\ in_position = FALSE
    /\ trading_active = TRUE
    /\ trailing_sl_active = FALSE
    /\ peak_mtm = 0
    /\ entry_info = EmptyDict
    /\ exit_info = EmptyDict
    /\ closed_pnl = 0
    /\ stops = EmptyDict
    /\ accumulators = ZeroAccumulators
    /\ next_vwap_update_time = <<>>
    /\ cum_pv = 0
    /\ cum_vol = 0
    /\ seen_sum_above_vwap = FALSE
    /\ exit_done = FALSE
    /\ upd = NoUpdate
    /\ bar_index = 0
    /\ broker \in BrokerAnswers
    /\ call = EmptyDict

\* IronCondorLive.run: _check_and_resume_position against the broker's answers
CondorResume ==
    /\ variant = "condor"
    /\ phase = "constructed"
    /\ Commit(CondorCheckAndResume(Session, broker.trade_book, broker.open_positions,
                                   broker.ltp_ok, 25000))
    /\ phase' = "resumed"
    /\ UNCHANGED <<variant, simulate_orders, clock, ws_open, more, bar_index, broker, call>>

NextResume == CondorResume

SpecResume == InitResume /\ [][NextResume]_vars

\* the broker reports the symbol net short (sell quantity > buy quantity) at
\* the average sell price avg
ReportedShort(symbol, avg) ==
    \E i \in 1..Len(broker.open_positions) :
        /\ broker.open_positions[i].tradingsymbol = symbol
        /\ broker.open_positions[i].sellqty > broker.open_positions[i].buyqty
        /\ broker.open_positions[i].sellavgprice = avg

\* the broker reports the symbol net long at the average buy price avg
ReportedLong(symbol, avg) ==
    \E i \in 1..Len(broker.open_positions) :
        /\ broker.open_positions[i].tradingsymbol = symbol
        /\ broker.open_positions[i].buyqty > broker.open_positions[i].sellqty
        /\ broker.open_positions[i].buyavgprice = avg

\* all four expected legs are reported with the right net direction
AllLegsReported ==
    /\ \E a \in 0..150 : ReportedShort(short_ce_contract.symbol, a)
    /\ \E a \in 0..150 : ReportedShort(short_pe_contract.symbol, a)
    /\ \E a \in 0..150 : ReportedLong(long_ce_contract.symbol, a)
    /\ \E a \in 0..150 : ReportedLong(long_pe_contract.symbol, a)

Resumed == variant = "condor" /\ phase = "resumed"

\* C15: after _check_and_resume_position the iron condor session is in position
\* iff the broker reports both short legs net short and both long legs net long;
\* then entry_info holds the reported averages (sell average of the shorts, buy
\* average of the longs), otherwise the session is flat with no entry_info
C15_ResumeIffAllLegs ==
    Resumed =>
        /\ in_position <=> AllLegsReported
        /\ in_position =>
              /\ ReportedShort(short_ce_contract.symbol, entry_info["short_ce_entry"])
              /\ ReportedShort(short_pe_contract.symbol, entry_info["short_pe_entry"])
              /\ ReportedLong(long_ce_contract.symbol, entry_info["long_ce_entry"])
              /\ ReportedLong(long_pe_contract.symbol, entry_info["long_pe_entry"])
        /\ ~in_position => entry_info = EmptyDict

\* C15 witness: a session resumed in position
C15_ResumedInPosition == Resumed /\ in_position /\ AllLegsReported

\* the position fields a call that resumes nothing leaves as constructed
NothingResumed ==
    /\ ~in_position
    /\ entry_info = EmptyDict
    /\ stops = EmptyDict
    /\ ~trailing_sl_active
    /\ peak_mtm = 0

C17_ResumeStopsAsEntry ==
    (Resumed /\ in_position) => stops = EntryStops(entry_info)

-----------------------------------------------------------------------------
(* Entry rules *)

\* a step of a replay that processes one bar
BarStep(v) == variant = v /\ phase = "replaying" /\ bar_index' = bar_index + 1

\* an update on which the vwap-cross-down rule is evaluated: the live strangle
\* flat with both prices known, the strangle replay flat and never exited at or
\* after 09:30, the straddle replay flat
CrossDownEvaluated ==
    \/ /\ variant = "strangle" /\ phase = "running" /\ clock' = clock
       /\ ~in_position
       /\ \A k \in StrangleTokens : k \in DOMAIN latest_ltp'
    \/ /\ BarStep("strangle_backtest")
       /\ ~in_position /\ exit_info = EmptyDict
       /\ clock' >= EntryStartTime
    \/ /\ BarStep("straddle_backtest")
       /\ ~in_position

\* the combined price of the update is above the VWAP that includes it
SumAboveVwap == cum_vol' > 0 /\ Combined(latest_ltp') * 4 * cum_vol' > cum_pv'

\* the update entered: the live session invoked _execute_entry, the replay
\* took the closes of the bar as entry prices
CrossDownEntered ==
    IF variant = "strangle" THEN upd'.entry_called
    ELSE upd'.entered /\ in_position' /\ entry_info' = latest_ltp'

\* the update did not enter
CrossDownStayedFlat ==
    ~upd'.entry_called /\ ~upd'.entered /\ ~in_position' /\ entry_info' = entry_info

\* C18: where the vwap-cross-down rule is evaluated (live strangle, strangle
\* replay, straddle replay) an unarmed session arms iff combined price > VWAP
\* and does not enter on that update; an armed session enters iff combined
\* price <= VWAP, the replays with the closes of that bar as entry prices;
\* no other step arms
C18_CrossDownEntry ==
    [][/\ (CrossDownEvaluated /\ ~seen_sum_above_vwap) =>
             /\ seen_sum_above_vwap' <=> SumAboveVwap
             /\ CrossDownStayedFlat
       /\ (CrossDownEvaluated /\ seen_sum_above_vwap) =>
             /\ seen_sum_above_vwap'
             /\ IF SumAboveVwap THEN CrossDownStayedFlat ELSE CrossDownEntered
       /\ (variant \in {"strangle", "strangle_backtest", "straddle_backtest"}
             /\ ~CrossDownEvaluated) => seen_sum_above_vwap' = seen_sum_above_vwap]_vars

\* C18 witness: the strangle replay entered on a bar at or below VWAP after it
\* was armed, with that bar's closes as entry prices
C18_EnteredAfterArming ==
    /\ variant = "strangle_backtest" /\ phase = "replaying"
    /\ seen_sum_above_vwap /\ upd.entered /\ in_position
    /\ entry_info = latest_ltp
    /\ Combined(latest_ltp) * 4 * cum_vol <= cum_pv

\* the combined close of the bar exceeds VWAP x (1 + band%), the VWAP
\* including the bar
AboveBand == Combined(latest_ltp') * 4 * cum_vol' * 100 > cum_pv' * (100 + vwap_band_pct)

\* C19: the band-breakout replay enters on a bar iff it has not entered before
\* and the combined close of the bar exceeds VWAP x 1.05; it never arms, and
\* after an entry no later bar enters again
C19_BandBreakoutEntry ==
    [][BarStep("band_backtest") =>
          /\ upd'.entered <=> (entry_info = EmptyDict /\ AboveBand)
          /\ upd'.entered => (in_position' /\ entry_info' = latest_ltp')
          /\ ~upd'.entered => entry_info' = entry_info
          /\ ~seen_sum_above_vwap']_vars

\* C19 witness: the replay entered, exited, and then processed a bar above the
\* band without entering again
C19_NoEntryAfterExit ==
    /\ variant = "band_backtest" /\ phase = "replaying"
    /\ entry_info # EmptyDict /\ exit_info # EmptyDict
    /\ upd.processed /\ ~upd.entered /\ upd.reasons = <<>>
    /\ Combined(latest_ltp) * 4 * cum_vol * 100 > cum_pv * (100 + vwap_band_pct)

\* every leg price and the index price are known once the tick is stored
AllPricesKnown ==
    \A k \in CondorTokens : k \in DOMAIN latest_ltp' /\ latest_ltp'[k] # 0

\* C20: a live iron condor update of a flat, trading session invokes the entry
\* iff it is at or after 09:30 and every leg and index price is known; a bar of
\* the replay enters iff it is at or after 09:30 and the replay has not entered
\* before; neither looks at price or VWAP, and no update before 09:30 enters
C20_ImmediateEntry ==
    [][/\ (variant = "condor" /\ phase = "running" /\ clock' = clock
             /\ ~in_position /\ trading_active) =>
             (upd'.entry_called <=> (clock >= EntryStartTime /\ AllPricesKnown))
       /\ BarStep("condor_backtest") =>
             /\ upd'.entered <=> (clock' >= EntryStartTime /\ entry_info = EmptyDict)
             /\ upd'.entered => (in_position' /\ entry_info' = latest_ltp')
       /\ (/\ \/ variant = "condor" /\ phase = "running" /\ clock' = clock
              \/ BarStep("condor_backtest")
           /\ clock' < EntryStartTime) =>
             (~upd'.entry_called /\ ~upd'.entered /\ in_position' = in_position)]_vars

\* C20 witness: the live session invoked the entry on an update at or after 09:30
C20_EnteredAtStart ==
    /\ variant = "condor" /\ phase = "running" /\ clock >= EntryStartTime
    /\ upd.processed /\ upd.entry_called
    /\ \A k \in CondorTokens : k \in DOMAIN latest_ltp


-----------------------------------------------------------------------------
(* Closed P&L from the trade history *)

\* the fills of one side of one instrument, in the order of the trade book
FillsOf(trade_book, symbol, side) ==
    LET Mine(t) == t.tradingsymbol = symbol /\ t.transactiontype = side
    IN  SelectSeq(trade_book, Mine)

\* realized P&L of a trade book by pairing, per leg instrument, the oldest
\* sell with the oldest buy
PairedPnl(trade_book) ==
    LET Realized(symbol) ==
            LET sells == FillsOf(trade_book, symbol, "SELL")
                buys == FillsOf(trade_book, symbol, "BUY")
            IN  IF sells = <<>> \/ buys = <<>> THEN 0
                ELSE (sells[1].fillprice - buys[1].fillprice) * sells[1].fillsize
    IN  Realized("s_ce") + Realized("s_pe") + Realized("l_ce") + Realized("l_pe")

\* C30: after a live startup against a trade book in which each leg has one
\* SELL and one BUY fill of equal quantity, each under its own fill id,
\* closed_pnl is the sum over the legs of (sell price - buy price) * quantity
C30_ClosedPnlPairsFills ==
    (phase = "resumed" /\ Live /\ broker.trade_book = PairedTradeBook)
        => closed_pnl = PairedPnl(PairedTradeBook)


-----------------------------------------------------------------------------
(* The end of the day in a live session *)

\* the closed state of a live session: flat after an exit, with the feed closed
Closed == phase = "running" /\ exit_done /\ ~in_position /\ ~ws_open

\* C28: a live session that was closed at or after the end-of-day cutoff stays
\* closed: no later step puts it in position again or reopens the feed
C28_ClosedStaysClosed ==
    [][(Closed /\ clock >= EodCutoff) => Closed']_vars


-----------------------------------------------------------------------------
(* Volume of a sample *)

\* a step of the strangle session that accumulates a sample: an update that is
\* not the end-of-day exit, processed when both leg prices are known
StrangleAccumulates ==
    /\ variant = "strangle" /\ phase = "running" /\ clock' = clock
    /\ upd'.processed
    /\ ~StrangleEodDue(Session, clock)
    /\ {"ce", "pe"} \subseteq DOMAIN latest_ltp'

\* C22: every sample is accumulated with a volume of at least 1 (its own
\* volume, or the placeholder 1 when it reports none) and with its price
\* weighted by that volume
C22_ZeroVolumeCountsAsOne ==
    [][StrangleAccumulates =>
         /\ cum_vol' >= cum_vol + 1
         /\ cum_pv' = cum_pv + 4 * (latest_ltp'["ce"] + latest_ltp'["pe"]) * (cum_vol' - cum_vol)]_vars


-----------------------------------------------------------------------------
(* Updates processed before every price is known *)

\* a live update is processed in this step
LiveUpdate == phase = "running" /\ clock' = clock /\ upd'.processed

\* after the update has stored its own price, the price of a required leg
\* (or, for the iron condor, of the index) is still unknown
PriceMissing ==
    IF variant = "condor" THEN ~(\A k \in CondorTokens : Truthy(latest_ltp', k))
    ELSE ~({"ce", "pe"} \subseteq DOMAIN latest_ltp')

\* the end-of-day exit is due at the update
EodDue == in_position /\ clock >= EodCutoff

\* C26: an update processed while a required price is unknown invokes no
\* entry, computes no P&L and names no exit reason other than EOD (and EOD only
\* when it is due); unless it is that end-of-day exit it places no order and
\* leaves the position state as it was.  An update processed in position
\* with every price known, inside the trading window, is evaluated.
C26_MissingPriceSkipsRules ==
    [][/\ (LiveUpdate /\ PriceMissing) =>
            /\ ~upd'.entry_called
            /\ ~upd'.pnl_computed
            /\ upd'.reasons \in {<<>>, <<"EOD">>}
            /\ upd'.reasons = <<"EOD">> => EodDue
            /\ upd'.reasons = <<>> =>
                  /\ upd'.orders = <<>>
                  /\ UNCHANGED <<in_position, trading_active, entry_info, exit_info,
                                 closed_pnl, stops, trailing_sl_active, peak_mtm,
                                 seen_sum_above_vwap, cum_pv, cum_vol, ws_open>>
       /\ (/\ LiveUpdate /\ ~PriceMissing /\ in_position /\ ~EodDue
           /\ variant = "condor" => (trading_active /\ clock >= EntryStartTime))
            => upd'.pnl_computed]_vars

\* an update inside the trading window that was skipped for a missing price
\* while the session holds a position
C26_SkippedInPosition ==
    /\ phase = "running" /\ upd.processed /\ in_position
    /\ clock >= EntryStartTime /\ clock < EodCutoff
    /\ IF variant = "condor" THEN ~(\A k \in CondorTokens : Truthy(latest_ltp, k))
       ELSE ~({"ce", "pe"} \subseteq DOMAIN latest_ltp)
    /\ DOMAIN latest_ltp # {}
    /\ upd.reasons = <<>> /\ ~upd.pnl_computed


-----------------------------------------------------------------------------
(* The live sessions seen from the feed: the payloads _on_tick receives, the
   candle histories the VWAP is built from, and the VWAP value each update
   uses.  call records the last thing the feed handed to the session. *)

\* a field of a payload: absent (None), a text float() rejects, or a number
Absent == [kind |-> "absent", raw |-> 0]
Text == [kind |-> "text", raw |-> 0]
Number(n) == [kind |-> "number", raw |-> n]

Payload(token, price, exchange_type, volume) ==
    [token |-> token, price |-> price, exchange_type |-> exchange_type, volume |-> volume]

\* payload.get(a) or payload.get(b) ...: the first truthy value, None when
\* the field is absent or zero (a text is truthy)
FirstTruthy(field) == IF field.kind = "number" /\ field.raw = 0 THEN Absent ELSE field

\* the price in the units of the model: the option legs in ticks of 0.20 rupee,
\* the index in rupees; scaled says the handler divides the raw value by 100
ScaledPrice(token, raw, scaled) ==
    IF token = index_token THEN (IF scaled THEN raw \div 100 ELSE raw)
    ELSE (IF scaled THEN raw \div 20 ELSE raw * 5)

\* a faulty variant of the price parser: an absent price is read as 0.0
CondorParseAbsentAsZero(payload) ==
    LET price == FirstTruthy(payload.price)
    IN  IF price.kind = "text" \/ payload.volume.kind = "text"
        THEN [ok |-> FALSE, ltp |-> 0, vol |-> 0]
        ELSE [ok |-> TRUE,
              ltp |-> ScaledPrice(payload.token, price.raw, payload.exchange_type \in 1..4),
              vol |-> payload.volume.raw]

\* IronCondorLive._on_tick, lines 353-364: ok = FALSE when float() raises
\* TypeError (None) or ValueError (text) for the price or the volume
CondorParse(payload) ==
    LET price == FirstTruthy(payload.price)
    IN  IF price.kind # "number" \/ payload.volume.kind = "text"
        THEN [ok |-> FALSE, ltp |-> 0, vol |-> 0]
        ELSE [ok |-> TRUE,
              ltp |-> ScaledPrice(payload.token, price.raw, payload.exchange_type \in 1..4),
              vol |-> payload.volume.raw]

\* StrangleLive._on_tick, lines 221-233: ltp_val is None returns, float() of a
\* text raises ValueError
StrangleParse(payload) ==
    LET price == FirstTruthy(payload.price)
    IN  IF price.kind # "number" \/ payload.volume.kind = "text"
        THEN [ok |-> FALSE, ltp |-> 0, vol |-> 0]
        ELSE [ok |-> TRUE,
              ltp |-> ScaledPrice(payload.token, price.raw, payload.exchange_type = 2),
              vol |-> payload.volume.raw]

\* payloads _on_tick cannot read: no price, a text for the price, a price of
\* zero (falsy, so read as None), a text for the volume
UnreadablePayloads(tokens) ==
    UNION { { Payload(t, Absent, 2, Number(1)), Payload(t, Text, 2, Number(1)),
              Payload(t, Number(0), 2, Absent), Payload(t, Number(2000), 2, Text) } :
            t \in tokens }

\* the prices the feed delivers for the iron condor, in the units of the model
FeedPrices(token) ==
    IF token = "s_ce" THEN {110, 250} ELSE {CHOOSE p \in CondorTickPrices[token] : TRUE}

CondorPayloads ==
    UNION { { Payload(t, Number(IF t = index_token THEN p * 100 ELSE p * 20),
                      IF t = index_token THEN 1 ELSE 2, Absent) :
                p \in FeedPrices(t) } : t \in CondorTokens }
    \cup { Payload("s_pe", Number(28), 5, Number(1)) }
    \cup UnreadablePayloads({"s_ce"})

StranglePayloads ==
    UNION { { Payload(t, Number(p * 20), 2, v) :
                p \in StrangleTickPrices[t], v \in {Absent, Number(1)} } :
            t \in StrangleTokens }
    \cup { Payload("pe", Number(20), 1, Number(1)) }
    \cup UnreadablePayloads({"ce"})

\* results of the four getCandleData calls of one recalculation: complete, one
\* leg without bars (_get_historical_candles returns [] on any failure), bars
\* without volume
FeedHistories ==
    CandleHistories
    \cup { [k \in CondorLegs |-> IF k = "l_pe" THEN <<>> ELSE << Bar(4, 4, 4, 4, 1) >>],
           [k \in CondorLegs |-> << Bar(4, 4, 4, 4, 0) >>] }

\* combined bars of the pre-fill of StrangleLive.prepare_contracts: none, one
\* with volume, one without
FeedPrefills == StranglePrefills \cup { << Bar(200, 220, 180, 200, 0) >> }

\* a quotient num / den, held as <<num, den>> with den > 0
FracAdd(a, b) == <<a[1] * b[2] + b[1] * a[2], a[2] * b[2]>>
FracSub(a, b) == <<a[1] * b[2] - b[1] * a[2], a[2] * b[2]>>
FracEq(a, b) == a[1] * b[2] = b[1] * a[2]

\* _get_strategy_vwap.get_leg_vwap, in ticks: cum_pv is held in quarter ticks
\* x volume; 0.0 when the leg has no volume
GetLegVwap(acc, key) ==
    IF acc[key].cum_vol > 0 THEN <<acc[key].cum_pv, 4 * acc[key].cum_vol>> ELSE <<0, 1>>

\* _get_strategy_vwap
GetStrategyVwap(acc) ==
    FracSub(FracAdd(GetLegVwap(acc, "s_ce"), GetLegVwap(acc, "s_pe")),
            FracAdd(GetLegVwap(acc, "l_ce"), GetLegVwap(acc, "l_pe")))

\* strangle_ws.py line 393: cum_pv / cum_vol if cum_vol > 0 else sum_price
StrangleVwap(pv, vol, sum_price) == IF vol > 0 THEN <<pv, 4 * vol>> ELSE <<sum_price, 1>>

\* what call holds after an _on_tick: whether the payload was dropped (and then
\* the payload), the candle history a recalculation fetched (<<>>: none was
\* due) and the VWAP the update computed (<<>>: it did not get that far)
TickCall(payload, dropped, hist, vwap) ==
    [fn |-> "_on_tick",
     payload |-> IF dropped THEN payload ELSE Payload("", Absent, 0, Absent),
     malformed |-> payload.price.kind # "number",
     dropped |-> dropped, hist |-> hist, vwap |-> vwap, fetched |-> <<>>]

\* what call holds after the pre-fill of prepare_contracts
PrefillCall(bars) ==
    [fn |-> "prepare_contracts", payload |-> Payload("", Absent, 0, Absent),
     malformed |-> FALSE, dropped |-> FALSE, hist |-> <<>>, vwap |-> <<>>, fetched |-> <<bars>>]

\* IronCondorLive._on_tick
CondorOnPayload(s, payload, now, o) ==
    LET parsed == CondorParse(payload)
    IN  IF parsed.ok THEN CondorOnTick(s, payload.token, parsed.ltp, now, o)
        ELSE [s EXCEPT !.upd = NoUpdate]

\* StrangleLive._on_tick
StrangleOnPayload(s, payload, now, o) ==
    LET parsed == StrangleParse(payload)
    IN  IF parsed.ok THEN StrangleOnTick(s, payload.token, parsed.ltp, parsed.vol, now, o)
        ELSE [s EXCEPT !.upd = NoUpdate]

InitFeed ==
    /\ Init
    /\ simulate_orders = (variant = "condor")

\* IronCondorLive.run up to ws.connect()
CondorFeedRun ==
    /\ CondorRun
    /\ simulate_orders

\* StrangleLive.run up to ws.connect(): the pre-fill of prepare_contracts
\* (lines 145-177, taken after 09:15), _check_and_resume_position
StrangleFeedRun ==
    /\ variant = "strangle"
    /\ phase = "constructed"
    /\ \E now \in 0..MaxClock, bars \in FeedPrefills, op \in StrangleOpenPositions :
         /\ clock' = now
         /\ StranglePrefillVol(bars) <= MaxCumVol
         /\ Commit(StrangleCheckAndResume(
                     [Session EXCEPT !.cum_pv = @ + StranglePrefillPv(bars),
                                     !.cum_vol = @ + StranglePrefillVol(bars)], op))
         /\ call' = PrefillCall(bars)
    /\ phase' = "running"
    /\ ws_open' = TRUE
    /\ UNCHANGED <<variant, simulate_orders, more, bar_index, broker>>

\* the end of one _on_tick call of the feed
FeedFinish(r, c) ==
    /\ Commit(r)
    /\ ws_open' = r.ws_open
    /\ more' \in (IF r.upd.raised \/ ws_open' THEN {FALSE} ELSE BOOLEAN)
    /\ call' = c
    /\ UNCHANGED <<variant, simulate_orders, phase, clock, bar_index, broker>>

\* IronCondorLive._on_tick on one payload; the VWAP is computed at line 518,
\* which the updates reach that go on to the entry or to the P&L
CondorFeedTick ==
    /\ variant = "condor"
    /\ Delivering
    /\ \E payload \in CondorPayloads, h \in FeedHistories :
         LET o == [DefaultAnswer EXCEPT !.hist = h]
             r == CondorOnPayload(Session, payload, clock, o)
         IN  /\ r.upd.recalc_called \/ h = DefaultHistory
             /\ FeedFinish(r, TickCall(payload, ~r.upd.processed,
                                       IF r.upd.recalc_called THEN <<h>> ELSE <<>>,
                                       IF r.upd.entry_called \/ r.upd.pnl_computed
                                       THEN GetStrategyVwap(r.accumulators) ELSE <<>>))

\* StrangleLive._on_tick on one payload; the VWAP is computed at line 393, by
\* the updates that accumulate
StrangleFeedTick ==
    /\ variant = "strangle"
    /\ Delivering
    /\ \E payload \in StranglePayloads :
         LET r == StrangleOnPayload(Session, payload, clock, DefaultStrangleAnswer)
             accumulated == /\ r.upd.processed
                            /\ ~StrangleEodDue(Session, clock)
                            /\ {"ce", "pe"} \subseteq DOMAIN r.latest_ltp
         IN  /\ r.cum_vol <= MaxCumVol
             /\ FeedFinish(r, TickCall(payload, ~r.upd.processed, <<>>,
                                       IF accumulated
                                       THEN StrangleVwap(r.cum_pv, r.cum_vol,
                                                r.latest_ltp["ce"] + r.latest_ltp["pe"])
                                       ELSE <<>>))

NextFeed == CondorFeedRun \/ StrangleFeedRun \/ Advance \/ CondorFeedTick \/ StrangleFeedTick

SpecFeed == InitFeed /\ [][NextFeed]_vars


\* the last thing the feed handed to the session was a call of fn
Called(fn) == DOMAIN call # {} /\ call.fn = fn

\* the state of a live session a dropped update must leave alone
SessionState ==
    <<latest_ltp, accumulators, next_vwap_update_time, cum_pv, cum_vol,
      in_position, trading_active, entry_info, exit_info, closed_pnl, stops,
      trailing_sl_active, peak_mtm, seen_sum_above_vwap, exit_done, ws_open>>

\* C25: an _on_tick whose payload has no price field, or a text in it that is
\* not a number, is dropped: latest_ltp, the VWAP accumulators and the
\* position state are unchanged, no rule is evaluated and no order placed
C25_MalformedUpdateDropped ==
    [][(phase = "running" /\ clock' = clock /\ Called("_on_tick")' /\ call'.malformed)
       => /\ call'.dropped
          /\ UNCHANGED SessionState
          /\ ~upd'.processed
          /\ ~upd'.entry_called /\ ~upd'.pnl_computed /\ ~upd'.recalc_called
          /\ upd'.reasons = <<>> /\ upd'.orders = <<>>]_vars

\* a payload without a readable price was dropped while the session held a
\* position and knew prices
C25_DroppedInPosition ==
    /\ Called("_on_tick") /\ call.malformed /\ call.dropped
    /\ in_position /\ DOMAIN latest_ltp # {}
    /\ clock >= EntryStartTime


\* the VWAP of one leg as the rule gives it: cum_pv / cum_vol, and the current
\* price of the leg while it has no volume
LegVwapOrPrice(key) ==
    IF accumulators[key].cum_vol > 0
    THEN <<accumulators[key].cum_pv, 4 * accumulators[key].cum_vol>>
    ELSE <<latest_ltp[key], 1>>

\* C21: the VWAP an update computes is cum_pv / cum_vol when cum_vol > 0 and
\* the current price sample when cum_vol = 0; for the iron condor this holds
\* of every per-leg accumulator _get_strategy_vwap combines
C21_VwapOrCurrentPrice ==
    (Called("_on_tick") /\ call.vwap # <<>>) =>
        IF variant = "condor"
        THEN FracEq(call.vwap,
                    FracSub(FracAdd(LegVwapOrPrice("s_ce"), LegVwapOrPrice("s_pe")),
                            FracAdd(LegVwapOrPrice("l_ce"), LegVwapOrPrice("l_pe"))))
        ELSE FracEq(call.vwap,
                    IF cum_vol > 0 THEN <<cum_pv, 4 * cum_vol>>
                    ELSE <<latest_ltp["ce"] + latest_ltp["pe"], 1>>)


\* C24: when a fetch returns no bars for a required leg (the pre-fill of the
\* strangle session, a periodic recalculation of the iron condor session) the
\* run is aborted: the session does not go on running on a default or stale VWAP
C24_NoBarsAborts ==
    /\ (Called("prepare_contracts") /\ call.fetched = << <<>> >>) => phase # "running"
    /\ (Called("_on_tick") /\ call.hist # <<>>
          /\ \E k \in CondorLegs : call.hist[1][k] = <<>>) => phase # "running"


-----------------------------------------------------------------------------
(* Helper functions examined on their own.  call holds the function, its
   arguments, how far it has come and what it returned. *)

(* _poll_order_status *)

\* iron_condor_ws.py line 381: timeout=10, polled twice a second
poll_timeout == 10
CondorPolls == poll_timeout * 2
\* strangle_ws.py line 259: range(10)
StranglePolls == 10

\* what get_order_status answers at one poll: None (no such order, or the
\* order book could not be read) or the order with its status
OrderStatuses == {"none", "open", "rejected", "complete"}

\* a faulty variant of the completion test: any order found counts as complete
FoundAtAll(status) == status # "none"

\* status and status.get("status") == "complete"
Complete(status) == status # "none" /\ status = "complete"

PollCall ==
    [fn |-> "_poll_order_status", polls |-> 0, seen_complete |-> FALSE,
     returned |-> "pending"]

PollLimit == IF variant = "condor" THEN CondorPolls ELSE StranglePolls

\* one turn of the loop of _poll_order_status: sleep, get_order_status, return
\* the details when complete, None after the last poll
PollOnce(c, status, limit) ==
    [c EXCEPT !.polls = @ + 1,
              !.seen_complete = @ \/ status = "complete",
              !.returned = IF Complete(status) THEN "details"
                           ELSE IF c.polls + 1 = limit THEN "none"
                           ELSE "pending"]

(* The fetch functions of the replays *)

\* one row of getCandleData: the bar of the minute ts
Row(ts, close) == [ts |-> ts, close |-> close]

\* the rows one getCandleData call can return for a leg over a window of two
\* minutes: none, either minute alone, both
RawRows(close) ==
    { <<>>, << Row(1, close) >>, << Row(2, close + 1) >>,
      << Row(1, close), Row(2, close + 1) >> }

FetchLegs(v) == IF v = "condor_backtest" THEN CondorLegs ELSE StrangleTokens

MinLen(raw) ==
    CHOOSE n \in { Len(raw[k]) : k \in DOMAIN raw } :
        \A k \in DOMAIN raw : n <= Len(raw[k])

\* _fetch_intraday_bars_for_iron_condor 145-157, _fetch_intraday_bars_for_ce_pe
\* 353-362, _fetch_intraday_bars_for_atm_straddle 91-107: RuntimeError when a
\* list is empty, otherwise zip() of the lists, the timestamp taken from the
\* first leg
FetchBars(raw, first) ==
    IF \E k \in DOMAIN raw : raw[k] = <<>>
    THEN [returned |-> "raised", bars |-> <<>>]
    ELSE [returned |-> "bars",
          bars |-> [i \in 1..MinLen(raw) |->
                      [ts |-> raw[first][i].ts, rows |-> [k \in DOMAIN raw |-> raw[k][i]]]]]

FetchCall(raw) == [fn |-> "fetch", raw |-> raw, returned |-> "pending", bars |-> <<>>]

FetchCalls(v) == { FetchCall(raw) : raw \in [FetchLegs(v) -> RawRows(10)] }


(* get_single_ce_pe_strikes (NIFTY), prices in rupees *)

strike_step == 50
min_strike_distance == 200
max_adjust_loops == 5

Abs(a) == IF a >= 0 THEN a ELSE 0 - a

CeilToStrikeStep(spot) == ((spot + strike_step - 1) \div strike_step) * strike_step
FloorToStrikeStep(spot) == (spot \div strike_step) * strike_step

\* lines 194-203: the strike offset by trading days to expiry; the hedge
\* offset is 400 in every case
StrikeOffset(dte) == IF dte <= 1 THEN 200 ELSE IF dte <= 3 THEN 350 ELSE 400
HedgeOffset == 400
\* lines 255-258
MinNetCredit(dte) == IF dte <= 1 THEN 20 ELSE 30

\* the one-minute closes the broker has for the option chain: the short CE and
\* PE first chosen trade at ce and pe, a strike one step further from the spot
\* is cheaper by step; none are the contracts without a candle, fail the
\* contracts whose getCandleData fails at every retry.  Contracts are named
\* by kind and distance from the strike first chosen, away from the spot.
Surface(ce, pe, step, none, fail) ==
    [ce |-> ce, pe |-> pe, step |-> step, none |-> none, fail |-> fail]

Surfaces ==
    { Surface(p[1], p[2], p[3], none, fail) :
        p \in { <<40, 40, 4>>, <<20, 40, 4>>, <<12, 12, 1>> },
        none \in { {}, { <<"CE", HedgeOffset>> }, { <<"CE", 0>> } },
        fail \in { {}, { <<"PE", 0>> }, { <<"PE", HedgeOffset>> } } }

Priced(value) == [kind |-> "price", value |-> value]
Illiquid == [kind |-> "none", value |-> 0]
HardFailure == [kind |-> "fail", value |-> 0]

\* get_historical_price, lines 220-244: the close, None for a contract without
\* data, RuntimeError after max_retries failed attempts
GetHistoricalPrice(q, kind, strike) ==
    LET away == IF kind = "CE" THEN strike - q.ce0 ELSE q.pe0 - strike
        base == IF kind = "CE" THEN q.surface.ce ELSE q.surface.pe
    IN  IF <<kind, away>> \in q.surface.fail THEN HardFailure
        ELSE IF <<kind, away>> \in q.surface.none THEN Illiquid
        ELSE Priced(Max(1, base - q.surface.step * (away \div strike_step)))

\* price_diff_pct > 0.25 with price_diff_pct = abs(a - b) / max(a, b)
Skewed(a, b) == 4 * Abs(a - b) > Max(a, b)

\* _adjust_for_price_difference: err says the call raised (a hard failure of
\* get_historical_price, or a None price in the arithmetic)
AdjustForPriceDifference(q, ce_strike, pe_strike) ==
    LET ce_ltp == GetHistoricalPrice(q, "CE", ce_strike)
        pe_ltp == GetHistoricalPrice(q, "PE", pe_strike)
        Result(err, ce, pe) == [err |-> err, ce_strike |-> ce, pe_strike |-> pe]
    IN  IF ce_ltp.kind # "price" \/ pe_ltp.kind # "price"
        THEN Result(TRUE, ce_strike, pe_strike)
        ELSE IF ~Skewed(ce_ltp.value, pe_ltp.value)
        THEN Result(FALSE, ce_strike, pe_strike)
        ELSE IF ce_ltp.value < pe_ltp.value
        THEN LET new_ce == ce_strike - strike_step
                 new_ce_price == GetHistoricalPrice(q, "CE", new_ce)
             IN  IF new_ce_price.kind # "price" THEN Result(TRUE, new_ce, pe_strike)
                 ELSE IF ~Skewed(new_ce_price.value, pe_ltp.value)
                 THEN Result(FALSE, new_ce, pe_strike)
                 ELSE Result(GetHistoricalPrice(q, "PE", pe_strike - strike_step).kind # "price",
                             new_ce, pe_strike - strike_step)
        ELSE LET new_pe == pe_strike + strike_step
                 new_pe_price == GetHistoricalPrice(q, "PE", new_pe)
             IN  IF new_pe_price.kind # "price" THEN Result(TRUE, ce_strike, new_pe)
                 ELSE IF ~Skewed(ce_ltp.value, new_pe_price.value)
                 THEN Result(FALSE, ce_strike, new_pe)
                 ELSE Result(GetHistoricalPrice(q, "CE", ce_strike + strike_step).kind # "price",
                             ce_strike + strike_step, new_pe)

\* lines 279-291 and 294-306: the hedge-leg liquidity search, up to five
\* strikes, each one step closer; 0.0 when none has data
RECURSIVE HedgeSearch(_, _, _, _)
HedgeSearch(q, kind, current, step) ==
    LET price == GetHistoricalPrice(q, kind, current)
    IN  IF step = 5 THEN [err |-> FALSE, strike |-> current, price |-> 0]
        ELSE IF price.kind = "fail" THEN [err |-> TRUE, strike |-> current, price |-> 0]
        ELSE IF price.kind = "price"
        THEN [err |-> FALSE, strike |-> current, price |-> price.value]
        ELSE HedgeSearch(q, kind,
                         IF kind = "CE" THEN current - strike_step ELSE current + strike_step,
                         step + 1)

\* lines 268-330: the net-credit loop
RECURSIVE CreditLoop(_, _, _, _, _, _)
CreditLoop(q, ce_strike, pe_strike, i, long_ce, long_pe) ==
    LET ce_price == GetHistoricalPrice(q, "CE", ce_strike)
        pe_price == GetHistoricalPrice(q, "PE", pe_strike)
        hedge_ce == HedgeSearch(q, "CE", ce_strike + HedgeOffset, 0)
        hedge_pe == HedgeSearch(q, "PE", pe_strike - HedgeOffset, 0)
        current_net_credit ==
            (ce_price.value + pe_price.value) - (hedge_ce.price + hedge_pe.price)
        Result(err, ce, pe, lce, lpe) ==
            [err |-> err, ce_strike |-> ce, pe_strike |-> pe,
             long_ce_strike |-> lce, long_pe_strike |-> lpe]
    IN  IF i = max_adjust_loops THEN Result(FALSE, ce_strike, pe_strike, long_ce, long_pe)
        ELSE IF \/ ce_price.kind # "price" \/ pe_price.kind # "price"
                \/ hedge_ce.err \/ hedge_pe.err
        THEN Result(TRUE, ce_strike, pe_strike, long_ce, long_pe)
        ELSE IF current_net_credit >= q.min_net_credit
        THEN Result(FALSE, ce_strike, pe_strike, hedge_ce.strike, hedge_pe.strike)
        ELSE IF \/ (ce_strike - strike_step) - q.ce_base < min_strike_distance
                \/ q.pe_base - (pe_strike + strike_step) < min_strike_distance
        THEN Result(FALSE, ce_strike, pe_strike, hedge_ce.strike, hedge_pe.strike)
        ELSE CreditLoop(q, ce_strike - strike_step, pe_strike + strike_step, i + 1,
                        hedge_ce.strike, hedge_pe.strike)

\* get_single_ce_pe_strikes: raised says the except clause of lines 333-335
\* logged the error and re-raised it
GetSingleCePeStrikes(spot, dte, surface) ==
    LET ce_base == CeilToStrikeStep(spot)
        pe_base == FloorToStrikeStep(spot)
        ce0 == ce_base + StrikeOffset(dte)
        pe0 == pe_base - StrikeOffset(dte)
        q == [surface |-> surface, ce0 |-> ce0, pe0 |-> pe0, ce_base |-> ce_base,
              pe_base |-> pe_base, min_net_credit |-> MinNetCredit(dte)]
        first == AdjustForPriceDifference(q, ce0, pe0)
        loop == CreditLoop(q, first.ce_strike, first.pe_strike, 0,
                           first.ce_strike + HedgeOffset, first.pe_strike - HedgeOffset)
        final == AdjustForPriceDifference(q, loop.ce_strike, loop.pe_strike)
        Raised == [returned |-> "raised", logged |-> TRUE, ce_base |-> ce_base,
                   pe_base |-> pe_base, ce_strike |-> 0, pe_strike |-> 0,
                   long_ce_strike |-> 0, long_pe_strike |-> 0]
    IN  IF first.err THEN Raised
        ELSE IF loop.err THEN Raised
        ELSE IF final.err THEN Raised
        ELSE [returned |-> "strikes", logged |-> FALSE, ce_base |-> ce_base,
              pe_base |-> pe_base, ce_strike |-> final.ce_strike,
              pe_strike |-> final.pe_strike, long_ce_strike |-> loop.long_ce_strike,
              long_pe_strike |-> loop.long_pe_strike]

StrikesCall(spot, dte, surface) ==
    [fn |-> "get_single_ce_pe_strikes", spot |-> spot, dte |-> dte, surface |-> surface,
     returned |-> "pending"]

StrikesCalls ==
    { StrikesCall(spot, dte, sf) : spot \in {25000, 25010}, dte \in {1, 5}, sf \in Surfaces }

(* The calls as a state machine *)

InitCalls ==
    /\ variant \in {"condor", "strangle"} \cup (ReplayVariants \ {"band_backtest"})
    /\ simulate_orders = FALSE
    /\ phase = "calling"
    /\ clock = 0
    /\ ws_open = FALSE
    /\ more = FALSE
    /\ latest_ltp = EmptyDict
    /\ in_position = FALSE
    /\ trading_active = TRUE
    /\ trailing_sl_active = FALSE
    /\ peak_mtm = 0
    /\ entry_info = EmptyDict
    /\ exit_info = EmptyDict
    /\ closed_pnl = 0
    /\ stops = EmptyDict
    /\ accumulators = ZeroAccumulators
    /\ next_vwap_update_time = <<>>
    /\ cum_pv = 0
    /\ cum_vol = 0
    /\ seen_sum_above_vwap = FALSE
    /\ exit_done = FALSE
    /\ upd = NoUpdate
    /\ bar_index = 0
    /\ broker = EmptyDict
    /\ call \in (IF variant \in ReplayVariants THEN FetchCalls(variant)
                 ELSE IF variant = "condor" THEN {PollCall} \cup StrikesCalls
                 ELSE {PollCall})

CallFrame ==
    UNCHANGED <<variant, simulate_orders, phase, clock, ws_open, more, latest_ltp,
                in_position, trading_active, trailing_sl_active, peak_mtm, entry_info,
                exit_info, closed_pnl, stops, accumulators, next_vwap_update_time,
                cum_pv, cum_vol, seen_sum_above_vwap, exit_done, upd, bar_index, broker>>

\* one poll of _poll_order_status
Poll ==
    /\ phase = "calling"
    /\ call.fn = "_poll_order_status"
    /\ call.returned = "pending"
    /\ \E status \in OrderStatuses : call' = PollOnce(call, status, PollLimit)
    /\ CallFrame

\* a fetch function of a replay returns or raises
Fetch ==
    /\ phase = "calling"
    /\ call.fn = "fetch"
    /\ call.returned = "pending"
    /\ LET result == FetchBars(call.raw, IF variant = "condor_backtest" THEN "s_ce" ELSE "ce")
       IN  call' = [call EXCEPT !.returned = result.returned, !.bars = result.bars]
    /\ CallFrame

\* get_single_ce_pe_strikes returns or raises
SelectStrikes ==
    /\ phase = "calling"
    /\ call.fn = "get_single_ce_pe_strikes"
    /\ call.returned = "pending"
    /\ call' = [fn |-> call.fn, spot |-> call.spot, dte |-> call.dte,
                surface |-> call.surface,
                result |-> GetSingleCePeStrikes(call.spot, call.dte, call.surface),
                returned |-> GetSingleCePeStrikes(call.spot, call.dte, call.surface).returned]
    /\ CallFrame

NextCalls == Poll \/ Fetch \/ SelectStrikes

SpecCalls == InitCalls /\ [][NextCalls]_vars

\* the loop of _poll_order_status runs on: between two polls it only sleeps,
\* and get_order_status returns (it turns every failure into None)
SpecCallsFair == SpecCalls /\ WF_vars(Poll)


-----------------------------------------------------------------------------
(* Properties of the helper functions *)

\* the per-leg lists a fetch received are of unequal length
UnequalLengths == \E j, k \in DOMAIN call.raw : Len(call.raw[j]) # Len(call.raw[k])

\* C23: a replay fetch that receives per-leg bar lists of unequal length
\* raises and hands no bar to the replay
C23_UnequalListsAbort ==
    (Called("fetch") /\ call.returned # "pending" /\ UnequalLengths)
        => (call.returned = "raised" /\ call.bars = <<>>)

\* C29: when a price probe of get_single_ce_pe_strikes finds no data or fails,
\* the function still returns strikes: short strikes on their side of the
\* spot and hedge strikes beyond them
C29_ProbeFailureReturnsStrikes ==
    (/\ Called("get_single_ce_pe_strikes") /\ call.returned # "pending"
     /\ call.surface.none \cup call.surface.fail # {})
    => /\ call.returned = "strikes"
       /\ call.result.ce_strike > call.result.ce_base
       /\ call.result.pe_strike < call.result.pe_base
       /\ call.result.long_ce_strike > call.result.ce_strike
       /\ call.result.long_pe_strike < call.result.pe_strike


\* _poll_order_status has been called
Polling == Called("_poll_order_status")

\* C27: _poll_order_status makes at most 20 polls in the iron condor session
\* and 10 in the strangle session and always returns; it returns the order
\* details exactly when some poll reported "complete", and None after the
\* last poll otherwise
C27_PollingTerminates ==
    /\ [](Polling =>
            /\ call.polls <= PollLimit
            /\ (call.returned = "details") <=> call.seen_complete
            /\ (call.returned = "none") <=> (call.polls = PollLimit /\ ~call.seen_complete)
            /\ (call.returned = "pending") => call.polls < PollLimit)
    /\ [](Polling => <>(call.returned # "pending"))

\* every poll of the iron condor session was used up without a "complete"
C27_PollsExhausted ==
    Polling /\ variant = "condor" /\ call.polls = CondorPolls /\ call.returned = "none"


\* C40: the short strikes get_single_ce_pe_strikes returns keep the minimum
\* distance from the base strikes: ce_strike - ce_base >= min_strike_distance
\* and pe_base - pe_strike >= min_strike_distance
C40_MinStrikeDistanceKept ==
    (Called("get_single_ce_pe_strikes") /\ call.returned = "strikes")
    => /\ call.result.ce_strike - call.result.ce_base >= min_strike_distance
       /\ call.result.pe_base - call.result.pe_strike >= min_strike_distance

-----------------------------------------------------------------------------
(* Arming of the live strangle and accumulated volume *)

\* C38: in the live strangle session the armed flag implies accumulated
\* volume (seen_sum_above_vwap => cum_vol > 0), and while no volume has been
\* accumulated the session is not armed and no update calls the entry
C38_ArmingNeedsVolume ==
    (variant = "strangle" /\ phase = "running")
    => /\ seen_sum_above_vwap => cum_vol > 0
       /\ cum_vol = 0 => (~seen_sum_above_vwap /\ ~upd.entry_called /\ ~upd.entered)

\* C38: an update was processed with both prices known, flat, and with no
\* volume accumulated by the pre-fill or by any update so far
C38_PricedWithoutVolume ==
    /\ variant = "strangle" /\ phase = "running"
    /\ upd.processed /\ ~in_position /\ cum_vol = 0
    /\ "ce" \in DOMAIN latest_ltp /\ "pe" \in DOMAIN latest_ltp
    /\ latest_ltp["ce"] # 100

-----------------------------------------------------------------------------
(* The periodic VWAP recalculation of the live iron condor *)

\* the history the recalculation of this step fetched lacks the bars of a leg
FetchIncomplete == \E k \in CondorLegs : call.hist[1][k] = <<>>

\* C39: an update that recalculates leaves the four accumulators as they were
\* when the fetch returned no bars for some leg; otherwise the accumulators
\* after it are those built from the fetched bars alone, starting from empty
\* accumulators, and recalculating again from the same bars changes nothing
C39_RecalculationAllOrNothing ==
    [][(Called("_on_tick") /\ call.hist # <<>>)'
       => IF FetchIncomplete'
          THEN accumulators' = accumulators
          ELSE /\ accumulators' = RecalculateVwapFromHistory(ZeroAccumulators, call'.hist[1])
               /\ RecalculateVwapFromHistory(accumulators', call'.hist[1]) = accumulators']_vars

\* C39: a recalculation whose fetch lacked the bars of a leg ran on accumulators
\* an earlier recalculation had filled, and they are still filled
C39_FailedOnFilledAccumulators ==
    /\ Called("_on_tick") /\ call.hist # <<>>
    /\ FetchIncomplete
    /\ accumulators # ZeroAccumulators

-----------------------------------------------------------------------------
(* The trailing state of the iron condor variants *)

CondorVariants == {"condor", "condor_backtest"}

\* a step that confirms an entry (live update or replay bar) or resumes a
\* position at startup
EntersOrResumes ==
    \/ upd'.entered /\ in_position' /\ ~in_position
    \/ phase = "constructed" /\ phase' = "running" /\ in_position'

\* C37: in the iron condor variants trailing_sl_active implies
\* peak_mtm >= trailing_activation_mtm and a position held in this session
\* (entry_info is set), and the step that confirms an entry or resumes a
\* position leaves trailing_sl_active false and peak_mtm 0
C37_TrailingStateConsistent ==
    [][(variant \in CondorVariants)
       => /\ trailing_sl_active' =>
               (peak_mtm' >= trailing_activation_mtm /\ entry_info' # EmptyDict)
          /\ EntersOrResumes => (~trailing_sl_active' /\ peak_mtm' = 0)]_vars

\* C37: trailing is active in an open position of the live session, with the
\* peak raised past the activation threshold
C37_TrailingPastThreshold ==
    /\ variant = "condor" /\ phase = "running"
    /\ in_position /\ trailing_sl_active
    /\ peak_mtm > trailing_activation_mtm

-----------------------------------------------------------------------------
(* The P&L the exit rules of the iron condor read *)

\* the update or bar of this step named the reason
Named(reason) == \E i \in 1..Len(upd'.reasons) : upd'.reasons[i] = reason

\* open P&L of the live session at the prices of this update:
\* (entry net credit - current net credit) x lot size
CondorOpenPnl == (EntryNetCredit(entry_info) - NetCredit(latest_ltp')) * lot_size

\* the prices of this update are the entry prices
AtEntryPrices ==
    /\ latest_ltp'["s_ce"] = entry_info["short_ce_entry"]
    /\ latest_ltp'["s_pe"] = entry_info["short_pe_entry"]
    /\ latest_ltp'["l_ce"] = entry_info["long_ce_entry"]
    /\ latest_ltp'["l_pe"] = entry_info["long_pe_entry"]

\* take profit and absolute stop-loss are decided by total_pnl
DecidedBy(total_pnl) ==
    /\ Named("TAKE_PROFIT") <=> total_pnl >= take_profit_points
    /\ Named("STOP_LOSS_ABS") <=>
          (total_pnl < take_profit_points /\ total_pnl <= 0 - absolute_stop_loss)

\* C31: every update of the live iron condor session processed in position
\* computes the P&L and decides take profit and absolute stop-loss by
\* open P&L + closed_pnl, with open P&L = (entry net credit - current net
\* credit) x lot_size, which is 0 at the entry prices; every bar of the replay
\* managed in position decides them by the open P&L (the replay has no closed
\* P&L), unless the trailing stop replaces the reason
C31_TotalPnlIsOpenPlusClosed ==
    [][/\ CondorManagedUpdate =>
             /\ upd'.pnl_computed
             /\ DecidedBy(CondorOpenPnl + closed_pnl)
             /\ AtEntryPrices => (CondorOpenPnl = 0 /\ DecidedBy(closed_pnl))
       /\ CondorManagedBar =>
             /\ closed_pnl' = 0
             /\ TrailingFired \/ DecidedBy(CondorBarPnl)
             /\ upd'.entered => (CondorBarPnl = 0 /\ upd'.reasons = <<>>)]_vars

\* C31: a live update was processed in position with closed P&L from the trade
\* book and an open loss that reaches the absolute stop-loss only without it
C31_ClosedPnlKeepsPosition ==
    /\ variant = "condor" /\ phase = "running" /\ in_position
    /\ upd.processed /\ upd.pnl_computed /\ upd.reasons = <<>>
    /\ closed_pnl > 0
    /\ (EntryNetCredit(entry_info) - NetCredit(latest_ltp)) * lot_size <= 0 - absolute_stop_loss

-----------------------------------------------------------------------------
(* Entry orders over the updates of one live iron condor session *)

\* the update whose history is u placed an entry order: a BUY of a long leg or
\* a SELL of a short leg accepted by the broker
EntryOrdersIn(u) ==
    \E i \in 1..Len(u.orders) :
        /\ u.orders[i].ok
        /\ \/ u.orders[i].leg \in LongLegs /\ u.orders[i].side = "BUY"
           \/ u.orders[i].leg \in ShortLegs /\ u.orders[i].side = "SELL"

\* the update whose history is u aborted its entry after the long legs: it
\* placed a BUY of a long leg and attempted no order on a short leg
AbortedEntry(u) ==
    /\ EntryOrdersIn(u)
    /\ \A i \in 1..Len(u.orders) : u.orders[i].leg \in LongLegs

\* C34: in live iron condor order mode the update that follows an aborted
\* entry (long-leg placement or confirmation failure) places no entry order:
\* entry orders are placed at most once per session
C34_EntryOrdersAtMostOnce ==
    [][(variant = "condor" /\ Live /\ LiveUpdate /\ AbortedEntry(upd))
       => ~EntryOrdersIn(upd')]_vars

-----------------------------------------------------------------------------
(* The unwind of a live strangle entry that was not confirmed *)

\* C35: when the live strangle entry ends with PARTIAL_ENTRY_FAILED, the update
\* attempts an offsetting BUY for a leg iff the SELL order of that leg was
\* confirmed complete (none when neither was confirmed)
C35_UnwindOnlyConfirmedLegs ==
    (variant = "strangle" /\ upd.entry_called /\ upd.reasons = <<"PARTIAL_ENTRY_FAILED">>)
    => \A leg \in StrangleTokens :
          Attempts(leg, "BUY") # {} <=> upd.fates[leg] = "complete"

-----------------------------------------------------------------------------
(* The entry and exit flags of the records of a replay.  The record of a bar
   has entry_flag = upd.entered and exit_flag = (upd.reasons # <<>>); the EOD
   exit rewrites the last record.  entry_index and exit_index are set iff
   entry_info and exit_info are. *)

\* no record so far has entry_flag = 1 / exit_flag = 1
NoEntryRecord == entry_info = EmptyDict
NoExitRecord == exit_info = EmptyDict

\* C36: in every replay a record gets entry_flag = 1 only when none had it, a
\* record gets exit_flag = 1 only when none had it and an entry record exists
\* (the same record or an earlier one), a bar names at most one reason, and at
\* the end of the replay a position entered and not exited gets its exit on
\* the last record, with reason EOD, so that a replay that entered ends with
\* exactly one exit record
C36_OneEntryOneExit ==
    [][phase = "replaying" =>
         /\ ~NoEntryRecord => entry_info' = entry_info
         /\ ~NoExitRecord => exit_info' = exit_info
         /\ bar_index' = bar_index + 1 =>
               /\ upd'.entered <=> (NoEntryRecord /\ ~NoEntryRecord')
               /\ upd'.reasons # <<>> <=> (NoExitRecord /\ ~NoExitRecord')
               /\ Len(upd'.reasons) <= 1
               /\ ~NoExitRecord' => ~NoEntryRecord'
         /\ phase' = "done" =>
               /\ bar_index' = bar_index
               /\ (~NoEntryRecord /\ NoExitRecord) =>
                     /\ upd'.reasons = <<"EOD">> /\ upd'.entered = upd.entered
                     /\ ~NoExitRecord' /\ exit_info'.reason = "EOD"
               /\ ~(~NoEntryRecord /\ NoExitRecord) => upd' = upd
               /\ ~NoEntryRecord' <=> ~NoExitRecord']_vars

\* C36: a replay entered on its last bar and ended: the last record carries
\* the entry flag and the EOD exit
C36_EnteredOnLastBar ==
    /\ variant \in ReplayVariants /\ phase = "done"
    /\ upd.entered /\ upd.reasons = <<"EOD">>

-----------------------------------------------------------------------------
(* The callback of the live iron condor session step by step (order placement
   mode).  run (line 590) calls SmartWebSocketV2.connect(), which runs the
   receive loop on the calling thread; on_data is _on_ws_message (587), which
   calls _on_tick for each item and returns when _process_strategy_on_tick has
   returned.  call holds the position of that thread inside the handler (pc),
   the updates the socket has received and not yet handed to _on_tick (queue)
   and counters of what the handler has done. *)

MaxQueue == 2

MaxProcessed == 3

\* polls of one _poll_order_status before it returns None (range(timeout * 2)
\* in the source)
MaxTxnPolls == 2

PlacePcs == {"buy_l_ce", "buy_l_pe", "sell_s_ce", "sell_s_pe",
             "exit_s_ce", "exit_s_pe", "exit_l_ce", "exit_l_pe"}

PollPcs == {"poll_l_ce", "poll_l_pe", "poll_s_ce", "poll_s_pe"}

\* the statement that follows pc when it completes normally
FollowingPc(pc) ==
    CASE pc = "buy_l_ce" -> "buy_l_pe"   [] pc = "buy_l_pe" -> "poll_l_ce"
      [] pc = "poll_l_ce" -> "poll_l_pe" [] pc = "poll_l_pe" -> "sell_s_ce"
      [] pc = "sell_s_ce" -> "sell_s_pe" [] pc = "sell_s_pe" -> "poll_s_ce"
      [] pc = "poll_s_ce" -> "poll_s_pe" [] pc = "poll_s_pe" -> "get_ltp"
      [] pc = "exit_s_ce" -> "exit_s_pe" [] pc = "exit_s_pe" -> "exit_l_ce"
      [] pc = "exit_l_ce" -> "exit_l_pe" [] pc = "exit_l_pe" -> "trade_book"
      [] OTHER -> "idle"

HandlerCall ==
    [fn |-> "_on_ws_message", pc |-> "idle", polls |-> 0, unconfirmed |-> FALSE,
     queue |-> 0, processed |-> 0, evaluated |-> 0, placed |-> 0]

\* the handler is back in the receive loop: the transaction, if any, is over
Returned(c) == [c EXCEPT !.pc = "idle", !.polls = 0, !.unconfirmed = FALSE, !.placed = 0]

\* a faulty variant of the receive loop: an update is handed to _on_tick while
\* the handler of an earlier one has not returned
DispatchAnyTime(c) == c.queue > 0

\* _on_ws_message, lines 368-375, under the receive loop of connect(): the next
\* update is handed to _on_tick when the handler of the previous one has returned
CanDispatch(c) == c.queue > 0 /\ c.pc = "idle"

InitHandler ==
    /\ variant = "condor"
    /\ simulate_orders = FALSE
    /\ phase = "handling"
    /\ clock = 0
    /\ ws_open = TRUE
    /\ more = FALSE
    /\ latest_ltp = EmptyDict
    /\ in_position \in BOOLEAN
    /\ trading_active = TRUE
    /\ trailing_sl_active = FALSE
    /\ peak_mtm = 0
    /\ entry_info = EmptyDict
    /\ exit_info = EmptyDict
    /\ closed_pnl = 0
    /\ stops = EmptyDict
    /\ accumulators = ZeroAccumulators
    /\ next_vwap_update_time = <<>>
    /\ cum_pv = 0
    /\ cum_vol = 0
    /\ seen_sum_above_vwap = FALSE
    /\ exit_done = FALSE
    /\ upd = NoUpdate
    /\ bar_index = 0
    /\ broker = EmptyDict
    /\ call = HandlerCall

HandlerFrame ==
    UNCHANGED <<variant, simulate_orders, phase, clock, more, latest_ltp,
                trailing_sl_active, peak_mtm, entry_info, exit_info, closed_pnl, stops,
                accumulators, next_vwap_update_time, cum_pv, cum_vol,
                seen_sum_above_vwap, exit_done, upd, bar_index, broker>>

\* the socket receives an update while the feed is open
Arrive ==
    /\ phase = "handling"
    /\ ws_open
    /\ call.queue < MaxQueue
    /\ call' = [call EXCEPT !.queue = @ + 1]
    /\ UNCHANGED <<in_position, trading_active, ws_open>>
    /\ HandlerFrame

\* _on_tick and _process_strategy_on_tick up to the first order: the update is
\* dropped or stops at a guard (lines 496-516), or the rules are evaluated:
\* flat, _execute_entry starts (524); in position, an exit rule fires or none does
Dispatch ==
    /\ phase = "handling"
    /\ CanDispatch(call)
    /\ call.processed < MaxProcessed
    /\ \E reaches_rules \in BOOLEAN, exit_fires \in BOOLEAN :
         LET c == [call EXCEPT !.queue = @ - 1, !.processed = @ + 1]
         IN  call' = IF ~trading_active \/ ~reaches_rules THEN c
                     ELSE [c EXCEPT !.evaluated = @ + 1,
                                    !.pc = IF ~in_position THEN "buy_l_ce"
                                           ELSE IF exit_fires THEN "exit_s_ce"
                                           ELSE "idle"]
    /\ UNCHANGED <<in_position, trading_active, ws_open>>
    /\ HandlerFrame

\* one api.place_order call: accepted, or it raises.  A raising BUY of the
\* entry returns (425-426), a raising SELL of the entry starts the exit
\* (437-439), a raising order of the exit leaves the handler (482-485)
PlaceOrder ==
    /\ phase = "handling"
    /\ call.pc \in PlacePcs
    /\ \E accepted \in BOOLEAN :
         call' = IF accepted
                 THEN [call EXCEPT !.pc = FollowingPc(@), !.placed = @ + 1]
                 ELSE IF call.pc \in {"sell_s_ce", "sell_s_pe"}
                 THEN [call EXCEPT !.pc = "exit_s_ce"]
                 ELSE Returned(call)
    /\ UNCHANGED <<in_position, trading_active, ws_open>>
    /\ HandlerFrame

\* one turn of the loop of _poll_order_status (382-387) inside _execute_entry:
\* after the second poll of a pair the entry goes on, is aborted (431-432) or
\* is unwound (444-446)
TxnPoll ==
    /\ phase = "handling"
    /\ call.pc \in PollPcs
    /\ \E status \in OrderStatuses :
         LET c == PollOnce([polls |-> call.polls, seen_complete |-> FALSE,
                            returned |-> "pending"], status, MaxTxnPolls)
             unconfirmed == call.unconfirmed \/ c.returned = "none"
             pair_done == call.pc \in {"poll_l_pe", "poll_s_pe"}
         IN  call' = IF c.returned = "pending" THEN [call EXCEPT !.polls = c.polls]
                     ELSE IF pair_done /\ unconfirmed
                     THEN (IF call.pc = "poll_l_pe" THEN Returned(call)
                           ELSE [call EXCEPT !.pc = "exit_s_ce", !.polls = 0,
                                             !.unconfirmed = FALSE])
                     ELSE [call EXCEPT !.pc = FollowingPc(@), !.polls = 0,
                                       !.unconfirmed = IF pair_done THEN FALSE
                                                       ELSE unconfirmed]
    /\ UNCHANGED <<in_position, trading_active, ws_open>>
    /\ HandlerFrame

\* lines 448-461: the index price is fetched and the entry is recorded
GetLtp ==
    /\ phase = "handling"
    /\ call.pc = "get_ltp"
    /\ \E ltp_ok \in BOOLEAN :
         /\ in_position' = (ltp_ok \/ in_position)
         /\ call' = Returned(call)
    /\ UNCHANGED <<trading_active, ws_open>>
    /\ HandlerFrame

\* lines 487-492: the end of _execute_exit
ReadTradeBook ==
    /\ phase = "handling"
    /\ call.pc = "trade_book"
    /\ in_position' = FALSE
    /\ trading_active' = FALSE
    /\ ws_open' = FALSE
    /\ call' = Returned(call)
    /\ HandlerFrame

NextHandler == Arrive \/ Dispatch \/ PlaceOrder \/ TxnPoll \/ GetLtp \/ ReadTradeBook

SpecHandler == InitHandler /\ [][NextHandler]_vars

\* an entry or exit transaction has placed its first order and has not ended
InTransaction == DOMAIN call # {} /\ call.fn = "_on_ws_message" /\ call.placed > 0

\* C33: between the first order placement of an entry or exit transaction and
\* the end of the transaction (the return of _execute_entry or _execute_exit)
\* no update is handed to _on_tick and no rule is evaluated
C33_TransactionBlocksUpdates ==
    [][InTransaction =>
         /\ call'.processed = call.processed
         /\ call'.evaluated = call.evaluated]_vars

\* C33: an update has arrived while the handler waits for the fills of an
\* entry whose orders are placed
C33_UpdateWaitsForFills ==
    /\ InTransaction
    /\ call.pc \in PollPcs /\ call.polls > 0
    /\ call.queue > 0

-----------------------------------------------------------------------------
(* The candle aggregation of the older live strangle session
   (src/src/live/strangle_old.py).  run registers _on_ws_message as the
   callback of the websocket client and then stays in its own loop, which
   flushes the candles once per interval: the callback runs on the client's
   thread, the loop on the thread of run, and both work on current_candle and
   latest_ltp without a lock.  call holds the position of each thread, the
   Candle objects created so far (candles; an object stays reachable through a
   local variable after it was popped) and the dictionary current_candle as
   indices into them.  Each step is one statement group of the source; cum_pv
   is price x volume here. *)

MaxTicks == 3

MaxFlushes == 2

OldTickPrices == {100, 180}

OldTickVolumes == {0, 1}

\* dataclass Candle (ts_start is not read by the rules)
Candle(open, high, low, close, volume) ==
    [open |-> open, high |-> high, low |-> low, close |-> close, volume |-> volume]

\* dataclass Tick, with the token it came for
Tick(token, ltp, volume) == [token |-> token, ltp |-> ltp, volume |-> volume]

\* dict.pop(key, None): the dictionary without the key
Pop(d, key) == [k \in DOMAIN d \ {key} |-> d[k]]

RunCall ==
    [fn |-> "run", feed_pc |-> "wait", tick |-> <<>>, c |-> 0,
     candles |-> <<>>, current_candle |-> EmptyDict,
     main_pc |-> "sleep", ce_c |-> 0, pe_c |-> 0,
     ticks |-> 0, flushes |-> 0, delivered |-> 0, counted |-> 0]

InitOld ==
    /\ variant = "strangle_old"
    /\ simulate_orders = TRUE
    /\ phase = "aggregating"
    /\ clock = 0
    /\ ws_open = TRUE
    /\ more = FALSE
    /\ latest_ltp = EmptyDict
    /\ in_position = FALSE
    /\ trading_active = TRUE
    /\ trailing_sl_active = FALSE
    /\ peak_mtm = 0
    /\ entry_info = EmptyDict
    /\ exit_info = EmptyDict
    /\ closed_pnl = 0
    /\ stops = EmptyDict
    /\ accumulators = ZeroAccumulators
    /\ next_vwap_update_time = <<>>
    /\ cum_pv = 0
    /\ cum_vol = 0
    /\ seen_sum_above_vwap = FALSE
    /\ exit_done = FALSE
    /\ upd = NoUpdate
    /\ bar_index = 0
    /\ broker = EmptyDict
    /\ call = RunCall

OldFrame ==
    UNCHANGED <<variant, simulate_orders, phase, clock, ws_open, more, trading_active,
                trailing_sl_active, peak_mtm, closed_pnl, accumulators,
                next_vwap_update_time, exit_done, upd, bar_index, broker>>

StrategyFrame ==
    UNCHANGED <<in_position, entry_info, exit_info, stops, cum_pv, cum_vol,
                seen_sum_above_vwap>>

\* client thread, _on_tick lines 224-237: the payload is read and the price stored
TickArrives ==
    /\ phase = "aggregating"
    /\ call.feed_pc = "wait"
    /\ call.ticks < MaxTicks
    /\ \E token \in StrangleTokens, ltp \in OldTickPrices, vol \in OldTickVolumes :
         /\ latest_ltp' = Put(latest_ltp, token, ltp)
         /\ call' = [call EXCEPT !.feed_pc = "get", !.tick = <<Tick(token, ltp, vol)>>,
                                 !.ticks = @ + 1]
    /\ StrategyFrame
    /\ OldFrame

\* client thread, _add_tick_to_candle line 164: c = self.current_candle.get(token)
GetCandle ==
    /\ phase = "aggregating"
    /\ call.feed_pc = "get"
    /\ call' = [call EXCEPT !.feed_pc = "put",
                            !.c = GetOr(call.current_candle, call.tick[1].token, 0)]
    /\ UNCHANGED latest_ltp
    /\ StrategyFrame
    /\ OldFrame

\* client thread, _add_tick_to_candle lines 165-179: a new candle is stored
\* under the token, or the candle read at line 164 is updated
PutTick ==
    /\ phase = "aggregating"
    /\ call.feed_pc = "put"
    /\ LET tick == call.tick[1]
           old == call.candles[call.c]
           done == [call EXCEPT !.feed_pc = "wait", !.tick = <<>>, !.c = 0,
                                !.delivered = @ + tick.volume]
       IN  call' = IF call.c = 0
                   THEN [done EXCEPT
                           !.candles = Append(@, Candle(tick.ltp, tick.ltp, tick.ltp,
                                                        tick.ltp, tick.volume)),
                           !.current_candle = Put(@, tick.token, Len(call.candles) + 1)]
                   ELSE [done EXCEPT
                           !.candles[call.c] =
                               Candle(old.open, Max(old.high, tick.ltp),
                                      IF old.low < tick.ltp THEN old.low ELSE tick.ltp,
                                      tick.ltp, old.volume + tick.volume)]
    /\ UNCHANGED latest_ltp
    /\ StrategyFrame
    /\ OldFrame

\* thread of run, _flush_and_get_combined line 189: the CE candle is popped
PopCe ==
    /\ phase = "aggregating"
    /\ call.main_pc = "sleep"
    /\ call.flushes < MaxFlushes
    /\ call' = [call EXCEPT !.main_pc = "pop_pe",
                            !.ce_c = GetOr(call.current_candle, "ce", 0),
                            !.current_candle = Pop(@, "ce")]
    /\ UNCHANGED latest_ltp
    /\ StrategyFrame
    /\ OldFrame

\* thread of run, line 190: the PE candle is popped
PopPe ==
    /\ phase = "aggregating"
    /\ call.main_pc = "pop_pe"
    /\ call' = [call EXCEPT !.main_pc = "read",
                            !.pe_c = GetOr(call.current_candle, "pe", 0),
                            !.current_candle = Pop(@, "pe")]
    /\ UNCHANGED latest_ltp
    /\ StrategyFrame
    /\ OldFrame

\* thread of run, lines 193-216 and 333-388: the popped candles are read (the
\* last price, or 0.0, for a leg without candle; volume 1.0 when both have
\* none), the running VWAP is updated and the rules are applied
FlushCandles ==
    /\ phase = "aggregating"
    /\ call.main_pc = "read"
    /\ LET ce_close == IF call.ce_c # 0 THEN call.candles[call.ce_c].close
                       ELSE GetOr(latest_ltp, "ce", 0)
           pe_close == IF call.pe_c # 0 THEN call.candles[call.pe_c].close
                       ELSE GetOr(latest_ltp, "pe", 0)
           ce_vol == IF call.ce_c # 0 THEN call.candles[call.ce_c].volume ELSE 0
           pe_vol == IF call.pe_c # 0 THEN call.candles[call.pe_c].volume ELSE 0
           price == ce_close + pe_close
           vol == IF ce_vol + pe_vol > 0 THEN ce_vol + pe_vol ELSE 1
           above == price * (cum_vol + vol) > cum_pv + price * vol
           enters == ~in_position /\ seen_sum_above_vwap /\ ~above
           stopped == /\ in_position
                      /\ \/ ce_close * 10 >= stops["ce_stop"]
                         \/ pe_close * 10 >= stops["pe_stop"]
       IN  /\ cum_pv' = cum_pv + price * vol
           /\ cum_vol' = cum_vol + vol
           /\ seen_sum_above_vwap' = (seen_sum_above_vwap \/ (~in_position /\ above))
           /\ in_position' = (enters \/ (in_position /\ ~stopped))
           /\ entry_info' = IF enters THEN StrangleCloses(ce_close, pe_close)
                            ELSE entry_info
           /\ stops' = IF enters
                       THEN [k \in {"ce_stop", "pe_stop"} |->
                               IF k = "ce_stop" THEN ce_close * 17 ELSE pe_close * 17]
                       ELSE stops
           /\ exit_info' = IF stopped
                           THEN [reason |-> "STOP_LOSS",
                                 close |-> StrangleCloses(ce_close, pe_close)]
                           ELSE exit_info
           /\ call' = [call EXCEPT !.main_pc = IF stopped THEN "done" ELSE "sleep",
                                   !.ce_c = 0, !.pe_c = 0,
                                   !.flushes = @ + 1,
                                   !.counted = @ + ce_vol + pe_vol]
    /\ UNCHANGED latest_ltp
    /\ OldFrame

\* thread of run, lines 389-404: KeyboardInterrupt ends the loop while it
\* sleeps, and a position still open is closed at the last prices
Interrupt ==
    /\ phase = "aggregating"
    /\ call.main_pc = "sleep"
    /\ in_position' = FALSE
    /\ exit_info' = IF in_position
                    THEN [reason |-> "EOD",
                          close |-> StrangleCloses(GetOr(latest_ltp, "ce", 0),
                                                   GetOr(latest_ltp, "pe", 0))]
                    ELSE exit_info
    /\ call' = [call EXCEPT !.main_pc = "done"]
    /\ UNCHANGED <<latest_ltp, entry_info, stops, cum_pv, cum_vol, seen_sum_above_vwap>>
    /\ OldFrame

NextOld ==
    TickArrives \/ GetCandle \/ PutTick \/ PopCe \/ PopPe \/ FlushCandles \/ Interrupt

SpecOld == InitOld /\ [][NextOld]_vars

\* the volume held by the candles still stored in current_candle
AttachedVolume ==
    LET V(t) == IF t \in DOMAIN call.current_candle
                THEN call.candles[call.current_candle[t]].volume ELSE 0
    IN  V("ce") + V("pe")

\* C32: whenever neither thread is inside a tick or a flush, the volume of
\* all ticks the callback has handled is the volume counted by the flushes
\* plus the volume of the candles still waiting to be flushed: no interleaving
\* of the callback with the loop loses or double-counts a tick's volume
C32_NoTickLostOrCountedTwice ==
    (/\ Called("run")
     /\ call.feed_pc = "wait"
     /\ call.main_pc \in {"sleep", "done"})
    => call.delivered = call.counted + AttachedVolume

====
